---- MODULE Spec2Model ----
(***************************************************************************)
(* Jzero astrology engine: the ephemeris cache and lookup, the chart       *)
(* composer, the house systems, the aspect finder and the time reference,  *)
(* as state machines over the calls a client can make.                     *)
(*                                                                         *)
(* Numbers.  A JavaScript number is an IEEE-754 binary64.  Angles are kept *)
(* here as integers counting ticks of 2^-FracBits degree, and an addition  *)
(* whose result is not representable is rounded to the nearest value with  *)
(* SignificandBits significant bits, ties to even, which is the binary64   *)
(* rule at a reduced significand width (TLC's integers are 32 bits wide).  *)
(* Julian days are whole days plus whole seconds.                          *)
(***************************************************************************)
EXTENDS Integers, Sequences, FiniteSets, TLC

VARIABLES
    dataModules,      \* body -> the raw records of its data module / file
    fileOk,           \* body -> whether the Node loader can read and parse its file
    ephemerisCache,   \* browser loader's cache: body -> table, or NotLoaded
    nodeCache,        \* Node loader's cache: body -> table, or NotLoaded
    loads,            \* body -> how many times its records were processed
    importedModule,   \* the ephemeris module this process imports
    call,             \* the last call made: [op |-> ..., arguments]
    ret               \* what that call returned or raised

vars == <<dataModules, fileOk, ephemerisCache, nodeCache, loads, importedModule,
          call, ret>>

(***************************************************************************)
(* Floating point                                                          *)
(***************************************************************************)
FracBits == 4
SignificandBits == 11

Pow2(n) == 2 ^ n
Tick == Pow2(FracBits)
Deg(d) == d * Tick
Abs(x) == IF x < 0 THEN -x ELSE x

\* The spacing of representable values at magnitude n (n >= 0, in ticks).
RECURSIVE Ulp(_)
Ulp(n) == IF n < Pow2(SignificandBits) THEN 1 ELSE 2 * Ulp(n \div 2)

FlPos(n) ==
    LET u == Ulp(n)
        q == n \div u
        r == n % u
    IN  IF 2 * r < u THEN q * u
        ELSE IF 2 * r > u THEN (q + 1) * u
        ELSE IF q % 2 = 0 THEN q * u ELSE (q + 1) * u

\* Round to nearest representable, ties to even.
Fl(n) == IF n < 0 THEN -FlPos(-n) ELSE FlPos(n)

\* JavaScript's %: the remainder takes the sign of the dividend, and is exact.
JsRem(a, m) == IF a >= 0 THEN a % m ELSE -((-a) % m)

\* a / b rounded to the nearest tick (b > 0).
DivRound(a, b) ==
    IF a >= 0 THEN (2 * a + b) \div (2 * b) ELSE -((2 * (-a) + b) \div (2 * b))

(***************************************************************************)
(* julianDay.js: normalizeAngle                                            *)
(***************************************************************************)
normalizeAngle(angle) ==
    LET normalized == JsRem(angle, Deg(360))
    IN  IF normalized < 0 THEN Fl(normalized + Deg(360)) ELSE normalized

(***************************************************************************)
(* The ephemeris data and its two loaders                                  *)
(*   browser: ephemeris-browser.js (data modules, keeps longitude >= 0)    *)
(*   Node:    ephemeris.js (JSON files, keeps longitude > 0)               *)
(***************************************************************************)
J2000_JD_TT == 2451545

\* What parseFloat gives for text that is no number, and a missing property.
NaN == 0 - 999999
Undefined == 0 - 888888

EphemerisBodies ==
    <<"Sun", "Moon", "Mercury", "Venus", "Mars",
      "Jupiter", "Saturn", "Uranus", "Neptune", "Pluto">>

SeqRange(s) == {s[i] : i \in 1..Len(s)}

Bodies == SeqRange(EphemerisBodies)

\* A body name no data module, file or constants entry exists for.
UnknownBody == "Vulcan"

SIGN_TO_LONGITUDE ==
    [s \in {"Aries", "Taurus", "Gemini", "Cancer", "Leo", "Virgo", "Libra",
            "Scorpio", "Sagittarius", "Capricorn", "Aquarius", "Pisces"} |->
        CASE s = "Aries" -> Deg(0)
          [] s = "Taurus" -> Deg(30)
          [] s = "Gemini" -> Deg(60)
          [] s = "Cancer" -> Deg(90)
          [] s = "Leo" -> Deg(120)
          [] s = "Virgo" -> Deg(150)
          [] s = "Libra" -> Deg(180)
          [] s = "Scorpio" -> Deg(210)
          [] s = "Sagittarius" -> Deg(240)
          [] s = "Capricorn" -> Deg(270)
          [] s = "Aquarius" -> Deg(300)
          [] s = "Pisces" -> Deg(330)]

\* A raw record {JD, Sign, Deg, Date_UT}; deg in whole degrees within the sign.
Rec(jd, sign, deg) ==
    [JD |-> jd, Sign |-> sign, Deg |-> IF deg = NaN THEN NaN ELSE Deg(deg),
     Date_UT |-> jd]

\* record => {jd, longitude, sign, degInSign, date}   (the map callback)
ProcessRecord(record) ==
    LET jd == record.JD                                   \* parseFloat(record.JD)
        sign == record.Sign
        degInSign == IF record.Deg = NaN THEN 0 ELSE record.Deg  \* parseFloat(..) || 0
        longitude == IF sign \in DOMAIN SIGN_TO_LONGITUDE
                     THEN SIGN_TO_LONGITUDE[sign] + degInSign
                     ELSE 0
    IN  [jd |-> jd, longitude |-> longitude, sign |-> sign,
         degInSign |-> degInSign, date |-> record.Date_UT]

KeepBrowser(r) == r.jd # NaN /\ r.longitude >= 0
KeepNode(r) == r.jd # NaN /\ r.longitude > 0

\* Array.prototype.sort((a, b) => a.jd - b.jd): stable, ascending by jd.
RECURSIVE InsertByJd(_, _)
InsertByJd(sorted, r) ==
    IF sorted = <<>> THEN <<r>>
    ELSE IF sorted[Len(sorted)].jd <= r.jd THEN Append(sorted, r)
    ELSE Append(InsertByJd(SubSeq(sorted, 1, Len(sorted) - 1), r), sorted[Len(sorted)])

RECURSIVE SortByJd(_)
SortByJd(s) ==
    IF s = <<>> THEN <<>>
    ELSE InsertByJd(SortByJd(SubSeq(s, 1, Len(s) - 1)), s[Len(s)])

MapProcess(data) == [i \in 1..Len(data) |-> ProcessRecord(data[i])]

ProcessBrowser(data) == SortByJd(SelectSeq(MapProcess(data), KeepBrowser))
ProcessNode(data) == SortByJd(SelectSeq(MapProcess(data), KeepNode))

NotLoaded == [loaded |-> FALSE, table |-> <<>>]
Loaded(t) == [loaded |-> TRUE, table |-> t]

AllNames == Bodies \cup {UnknownBody}

LoadResult(cache, cnt, data) == [cache |-> cache, loads |-> cnt, data |-> data]

\* if (ephemerisCache[body]): any array, the empty one too, is truthy.
NeverCached(cache, body) == FALSE
IsCached(cache, body) == cache[body].loaded

\* loadEphemerisData of ephemeris-browser.js: what it returns (data) and what it
\* leaves in the cache; cnt counts the runs of the map/filter/sort pipeline.
loadEphemerisData(cache, cnt, body) ==
    IF IsCached(cache, body) THEN LoadResult(cache, cnt, cache[body].table)
    ELSE IF body \notin DOMAIN dataModules THEN LoadResult(cache, cnt, <<>>)
    ELSE LET processed == ProcessBrowser(dataModules[body])
         IN  LoadResult([cache EXCEPT ![body] = Loaded(processed)],
                        [cnt EXCEPT ![body] = @ + 1], processed)

\* loadEphemerisData of ephemeris.js: a file that is missing or does not parse
\* throws inside the try block; the catch returns [] and caches nothing.
loadEphemerisDataNode(cache, cnt, body) ==
    IF IsCached(cache, body) THEN LoadResult(cache, cnt, cache[body].table)
    ELSE IF body \notin DOMAIN dataModules \/ ~fileOk[body]
         THEN LoadResult(cache, cnt, <<>>)
    ELSE LET processed == ProcessNode(dataModules[body])
         IN  LoadResult([cache EXCEPT ![body] = Loaded(processed)],
                        [cnt EXCEPT ![body] = @ + 1], processed)

lerp(x0, y0, x1, y1, x) ==
    IF x1 = x0 THEN y0 ELSE y0 + DivRound((y1 - y0) * (x - x0), x1 - x0)

Null == [found |-> FALSE, longitude |-> NaN, interpolated |-> FALSE,
         beforeJD |-> NaN, afterJD |-> NaN]

\* The scan, were its two comparisons strict.
BracketStrict(data, jd) ==
    LET hits == {i \in 1..(Len(data) - 1) : data[i].jd < jd /\ data[i + 1].jd > jd}
    IN  IF hits = {} THEN 0 ELSE CHOOSE i \in hits : \A k \in hits : i <= k

\* Index of the first adjacent pair bracketing jd, 0 when the scan finds none.
Bracket(data, jd) ==
    LET hits == {i \in 1..(Len(data) - 1) : data[i].jd <= jd /\ data[i + 1].jd >= jd}
    IN  IF hits = {} THEN 0 ELSE CHOOSE i \in hits : \A k \in hits : i <= k

\* data.reduce((prev, curr) => |curr.jd - jd| < |prev.jd - jd| ? curr : prev)
RECURSIVE Closest(_, _, _)
Closest(data, jd, n) ==
    IF n = 1 THEN data[1]
    ELSE LET prev == Closest(data, jd, n - 1)
         IN  IF Abs(data[n].jd - jd) < Abs(prev.jd - jd) THEN data[n] ELSE prev

\* The wrap-around step: the two longitudes that are interpolated.
NoWrapPair(before, after) == <<before, after>>
WrapPair(before, after) ==
    IF Abs(after - before) > Deg(180)
    THEN IF after < before THEN <<before, Fl(after + Deg(360))>>
                           ELSE <<Fl(before + Deg(360)), after>>
    ELSE <<before, after>>

\* if (jd < data[0].jd || jd > data[data.length - 1].jd)
OutsideOrOnEdge(data, jd) == jd <= data[1].jd \/ jd >= data[Len(data)].jd
OutOfRange(data, jd) == jd < data[1].jd \/ jd > data[Len(data)].jd

\* getEphemerisPosition after its load: the position read from the table data.
PositionFrom(data, jd) ==
    IF Len(data) = 0 THEN Null
    ELSE IF OutOfRange(data, jd) THEN Null
    ELSE LET i == Bracket(data, jd)
         IN  IF i = 0
             THEN [found |-> TRUE, longitude |-> Closest(data, jd, Len(data)).longitude,
                   interpolated |-> FALSE, beforeJD |-> NaN, afterJD |-> NaN]
             ELSE LET lon == WrapPair(data[i].longitude, data[i + 1].longitude)
                  IN  [found |-> TRUE,
                       longitude |-> normalizeAngle(
                           lerp(data[i].jd, lon[1], data[i + 1].jd, lon[2], jd)),
                       interpolated |-> TRUE,
                       beforeJD |-> data[i].jd, afterJD |-> data[i + 1].jd]

\* checkEphemerisAvailability on the Sun table it loaded.
AvailabilityFrom(sunData, jd) ==
    IF Len(sunData) = 0
    THEN [available |-> FALSE, reason |-> "No ephemeris data loaded",
          minJD |-> Undefined, maxJD |-> Undefined,
          minDate |-> Undefined, maxDate |-> Undefined]
    ELSE LET minJD == sunData[1].jd
             maxJD == sunData[Len(sunData)].jd
         IN  [available |-> jd >= minJD /\ jd <= maxJD, reason |-> "",
              minJD |-> minJD, maxJD |-> maxJD,
              minDate |-> sunData[1].date, maxDate |-> sunData[Len(sunData)].date]

\* getAllEphemerisPositions of ephemeris-browser.js over bodies[1..n]: the cache
\* and counters after the loads, and the positions pushed (the Moon is skipped,
\* a body whose lookup gave null is left out).
RECURSIVE AllPositions(_, _, _, _)
AllPositions(cache, cnt, jd, n) ==
    IF n = 0 THEN [cache |-> cache, loads |-> cnt, positions |-> <<>>]
    ELSE LET prev == AllPositions(cache, cnt, jd, n - 1)
             body == EphemerisBodies[n]
         IN  IF body = "Moon" THEN prev
             ELSE LET ld == loadEphemerisData(prev.cache, prev.loads, body)
                      pos == PositionFrom(ld.data, jd)
                  IN  [cache |-> ld.cache, loads |-> ld.loads,
                       positions |-> IF pos.found
                                     THEN Append(prev.positions,
                                                 [body |-> body, longitude |-> pos.longitude,
                                                  interpolated |-> pos.interpolated])
                                     ELSE prev.positions]

getAllEphemerisPositions(cache, cnt, jd) ==
    AllPositions(cache, cnt, jd, Len(EphemerisBodies))

\* calculateInnerPlanet of inner-planets-calculator.js: the Kepler propagation
\* of Mercury, Venus and Mars, which gives a position for every jd.
calculateInnerPlanet(planetName, jd) == [found |-> TRUE, method |-> "J2000-Kepler"]

InnerPlanets == <<"Mercury", "Venus", "Mars">>

\* Object.entries(array): the keys are the indices "0", "1", ...
IndexKey == <<"0", "1", "2", "3", "4", "5", "6", "7", "8", "9">>

Planet(name, source) == [planet |-> name, source |-> source]

\* calculateAtJD: the planets of the chart at the J2000.0 epoch.
PlanetsAtJD(positions, jd) ==
    [i \in 1..Len(positions) |-> Planet(IndexKey[i], "J2000-Ephemeris")]
        \o <<Planet("Moon", "J2000-ELP2000")>>

\* calculateBirthChart, lines 329-390: the planets of a dated chart.
PlanetsOfChart(positions, jd) ==
    LET IsOuter(pos) == pos.body \notin {"Mercury", "Venus", "Mars", "Moon"}
        outer == SelectSeq(positions, IsOuter)
        IsComputed(name) == calculateInnerPlanet(name, jd).found
        inner == SelectSeq(InnerPlanets, IsComputed)
    IN  [i \in 1..Len(outer) |-> Planet(outer[i].body, "ephemeris")]
            \o [i \in 1..Len(inner) |-> Planet(inner[i], "J2000-Kepler")]
            \o <<Planet("Moon", "J2000-ELP2000")>>

(***************************************************************************)
(* Spec: a client of the two ephemeris modules and of the chart composer   *)
(***************************************************************************)
JdSpan == 3
J == J2000_JD_TT
JdInputs == (J - JdSpan)..(J + JdSpan)

Full == <<Rec(J - 2, "Pisces", 20), Rec(J + 2, "Aries", 10)>>
Narrow == <<Rec(J + 1, "Leo", 5), Rec(J + 3, "Leo", 9)>>
Single == <<Rec(J, "Virgo", 12)>>
Messy == <<Rec(J + 2, "Taurus", 3), Rec(NaN, "Leo", 1), Rec(J - 1, "Aries", 0),
           Rec(J - 1, "Ophiuchus", 7), Rec(J, "Gemini", NaN)>>
DataSets == {Full, Narrow, Single, Messy, <<>>}

\* The bodies whose data vary between runs, and the bodies a client looks up.
VaryingBodies == {"Sun", "Jupiter"}
LookupBodies == VaryingBodies \cup {UnknownBody}

Init ==
    /\ dataModules \in {m \in [Bodies -> DataSets] :
                            \A b \in Bodies \ VaryingBodies : m[b] = Full}
    /\ fileOk = [b \in AllNames |-> b \in Bodies]
    /\ ephemerisCache = [b \in AllNames |-> NotLoaded]
    /\ nodeCache = [b \in AllNames |-> NotLoaded]
    /\ loads = [browser |-> [b \in AllNames |-> 0], node |-> [b \in AllNames |-> 0]]
    /\ importedModule \in {"ephemeris-browser.js", "ephemeris.js"}
    /\ call = [op |-> "none"]
    /\ ret = [found |-> FALSE]

\* getEphemerisPosition(body, jd) of ephemeris-browser.js
GetEphemerisPosition(body, jd) ==
    LET ld == loadEphemerisData(ephemerisCache, loads.browser, body)
    IN  /\ importedModule = "ephemeris-browser.js"
        /\ ephemerisCache' = ld.cache
        /\ loads' = [loads EXCEPT !.browser = ld.loads]
        /\ call' = [op |-> "getEphemerisPosition", body |-> body, jd |-> jd]
        /\ ret' = PositionFrom(ld.data, jd)
        /\ UNCHANGED <<dataModules, fileOk, nodeCache, importedModule>>

\* getEphemerisPosition(body, jd) of ephemeris.js
GetEphemerisPositionNode(body, jd) ==
    LET ld == loadEphemerisDataNode(nodeCache, loads.node, body)
    IN  /\ importedModule = "ephemeris.js"
        /\ nodeCache' = ld.cache
        /\ loads' = [loads EXCEPT !.node = ld.loads]
        /\ call' = [op |-> "getEphemerisPositionNode", body |-> body, jd |-> jd]
        /\ ret' = PositionFrom(ld.data, jd)
        /\ UNCHANGED <<dataModules, fileOk, ephemerisCache, importedModule>>

\* checkEphemerisAvailability(jd) of ephemeris-browser.js
CheckEphemerisAvailability(jd) ==
    LET ld == loadEphemerisData(ephemerisCache, loads.browser, "Sun")
    IN  /\ importedModule = "ephemeris-browser.js"
        /\ ephemerisCache' = ld.cache
        /\ loads' = [loads EXCEPT !.browser = ld.loads]
        /\ call' = [op |-> "checkEphemerisAvailability", body |-> "Sun", jd |-> jd]
        /\ ret' = AvailabilityFrom(ld.data, jd)
        /\ UNCHANGED <<dataModules, fileOk, nodeCache, importedModule>>

\* checkEphemerisAvailability(jd) of ephemeris.js
CheckEphemerisAvailabilityNode(jd) ==
    LET ld == loadEphemerisDataNode(nodeCache, loads.node, "Sun")
    IN  /\ importedModule = "ephemeris.js"
        /\ nodeCache' = ld.cache
        /\ loads' = [loads EXCEPT !.node = ld.loads]
        /\ call' = [op |-> "checkEphemerisAvailabilityNode", body |-> "Sun", jd |-> jd]
        /\ ret' = AvailabilityFrom(ld.data, jd)
        /\ UNCHANGED <<dataModules, fileOk, ephemerisCache, importedModule>>

\* calculateBirthChart(birthData) of calculator-calibrated.js.  jdIn is the Terrestrial Time Julian Day of
\* the date fields, Undefined when birthData carries no year, month or day.
\* With no date or useJ2000 the chart is calculateAtJD(J2000_JD_TT), which,
\* the positions computed, calls houses.find on the object calculateHouses
\* returned: a TypeError.
CalculateBirthChart(jdIn, useJ2000) ==
    LET atJ2000 == jdIn = Undefined \/ useJ2000
        jd == IF atJ2000 THEN J2000_JD_TT ELSE jdIn
        sun == loadEphemerisData(ephemerisCache, loads.browser, "Sun")
        availability == AvailabilityFrom(sun.data, jd)
        all == getAllEphemerisPositions(sun.cache, sun.loads, jd)
    IN  /\ importedModule = "ephemeris-browser.js"
        /\ call' = [op |-> "calculateBirthChart", body |-> "Sun", jd |-> jd,
                    useJ2000 |-> useJ2000, dated |-> jdIn # Undefined]
        /\ UNCHANGED <<dataModules, fileOk, nodeCache, importedModule>>
        /\ IF ~availability.available
           THEN /\ ephemerisCache' = sun.cache
                /\ loads' = [loads EXCEPT !.browser = sun.loads]
                /\ ret' = [ok |-> FALSE,
                           error |-> "Ephemeris data not available",
                           minDate |-> availability.minDate,
                           maxDate |-> availability.maxDate,
                           planets |-> <<>>]
           ELSE /\ ephemerisCache' = all.cache
                /\ loads' = [loads EXCEPT !.browser = all.loads]
                /\ ret' = IF atJ2000
                          THEN [ok |-> FALSE,
                                error |-> "TypeError: houses.find is not a function",
                                minDate |-> availability.minDate,
                                maxDate |-> availability.maxDate,
                                planets |-> <<>>]
                          ELSE [ok |-> TRUE, error |-> "",
                                minDate |-> availability.minDate,
                                maxDate |-> availability.maxDate,
                                planets |-> PlanetsOfChart(all.positions, jd)]

\* The environment replaces, removes or restores a body's JSON file.
FileChange(body) ==
    /\ importedModule = "ephemeris.js"
    /\ fileOk' = [fileOk EXCEPT ![body] = ~@]
    /\ call' = [op |-> "fileChange", body |-> body]
    /\ ret' = [found |-> FALSE]
    /\ UNCHANGED <<dataModules, ephemerisCache, nodeCache, loads, importedModule>>

Next ==
    \/ \E body \in LookupBodies, jd \in JdInputs : GetEphemerisPosition(body, jd)
    \/ \E body \in LookupBodies, jd \in JdInputs : GetEphemerisPositionNode(body, jd)
    \/ \E jd \in JdInputs : CheckEphemerisAvailability(jd)
    \/ \E jd \in JdInputs : CheckEphemerisAvailabilityNode(jd)
    \/ \E jd \in JdInputs \cup {Undefined}, useJ2000 \in BOOLEAN :
          CalculateBirthChart(jd, useJ2000)
    \/ \E body \in VaryingBodies : FileChange(body)

Spec == Init /\ [][Next]_vars

(***************************************************************************)
(* Claims about the ephemeris modules and the chart composer (under Spec)  *)
(***************************************************************************)
ChartBodies(planets) == {planets[i].planet : i \in 1..Len(planets)}

\* C1: calculateBirthChart either raises and returns nothing, or returns a
\* chart holding a position for every one of the ten bodies.
C1_AllOrNothing ==
    call.op = "calculateBirthChart" =>
        IF ret.ok THEN Bodies \subseteq ChartBodies(ret.planets)
                  ELSE ret.planets = <<>>

LookupCall(c) == c.op \in {"getEphemerisPosition", "getEphemerisPositionNode"}
CacheOf(c, browser, node) == IF c.op = "getEphemerisPosition" THEN browser ELSE node
TableJds(t) == {t[i].jd : i \in 1..Len(t)}

\* C2: a lookup is unavailable (no longitude) when jd is strictly below the
\* smallest or strictly above the largest jd of the body's table, it gives a
\* longitude for every jd from the smallest to the largest jd of a non-empty
\* table, and a table that was cached before the lookup is the same after it.
C2_LookupRange ==
    [][LookupCall(call') =>
        LET before == CacheOf(call', ephemerisCache, nodeCache)
            after == CacheOf(call', ephemerisCache', nodeCache')
            jds == TableJds(after[call'.body].table)
            jd == call'.jd
        IN  /\ (jds # {} /\ ((\A x \in jds : jd < x) \/ (\A x \in jds : jd > x)))
                  => (~ret'.found /\ ret'.longitude = NaN)
            /\ (\E lo \in jds, hi \in jds : lo <= jd /\ jd <= hi)
                  => (ret'.found /\ ret'.longitude >= 0 /\ ret'.longitude < Deg(360))
            /\ before[call'.body].loaded => after = before
            /\ \A b \in AllNames \ {call'.body} : after[b] = before[b]]_vars

C2_Witness ==
    /\ call.op = "getEphemerisPosition"
    /\ ephemerisCache[call.body].loaded
    /\ Len(ephemerisCache[call.body].table) >= 2
    /\ \A x \in TableJds(ephemerisCache[call.body].table) : call.jd > x
    /\ ~ret.found

\* C3: when chart composition fails because jd is not covered, the error
\* carries the minimum and maximum bounds of the table, both defined, and no
\* planet position has been computed; also when the Sun table is empty.
C3_ErrorCarriesBounds ==
    (call.op = "calculateBirthChart" /\ ~ret.ok
        /\ ret.error = "Ephemeris data not available") =>
        /\ ret.minDate # Undefined
        /\ ret.maxDate # Undefined
        /\ ret.planets = <<>>

\* C13: a call without a date, or with useJ2000 set, completes without error
\* and returns the chart at J2000.0 with its planets, whatever date fields
\* were supplied (stated for the runs where the ephemeris covers J2000.0).
C13_J2000Default ==
    (call.op = "calculateBirthChart" /\ (call.useJ2000 \/ ~call.dated)
        /\ ret.error # "Ephemeris data not available") =>
        /\ ret.ok
        /\ call.jd = J2000_JD_TT
        /\ ret.planets # <<>>

\* C7: once a body's table is cached it stays the same table whatever is
\* called later, each body's records are processed at most once, and a call
\* that loads one body changes no other body's cache entry.
SingleBodyCall(c) ==
    c.op \in {"getEphemerisPosition", "getEphemerisPositionNode",
              "checkEphemerisAvailability", "checkEphemerisAvailabilityNode"}

C7_CacheOnce ==
    [][\A b \in AllNames :
        /\ ephemerisCache[b].loaded => ephemerisCache'[b] = ephemerisCache[b]
        /\ nodeCache[b].loaded => nodeCache'[b] = nodeCache[b]
        /\ loads'.browser[b] <= 1 /\ loads'.node[b] <= 1
        /\ (SingleBodyCall(call') /\ b # call'.body)
              => (ephemerisCache'[b] = ephemerisCache[b] /\ nodeCache'[b] = nodeCache[b])
        /\ ephemerisCache'[b].loaded
              => ephemerisCache'[b].table = ProcessBrowser(dataModules[b])
        /\ nodeCache'[b].loaded
              => nodeCache'[b].table = ProcessNode(dataModules[b])]_vars

\* A lookup answered from the cache after the body's file has gone.
C7_Witness ==
    /\ call.op = "getEphemerisPositionNode"
    /\ call.body = "Jupiter"
    /\ nodeCache["Jupiter"].loaded
    /\ ~fileOk["Jupiter"]
    /\ loads.node["Jupiter"] = 1
    /\ ret.found

(***************************************************************************)
(* houses.js                                                               *)
(***************************************************************************)
Cusp(n, longitude, system) ==
    [cusp |-> n, longitude |-> longitude, sign |-> longitude \div Deg(30),
     system |-> system]

SignIndexUnwrapped(ascSign, i) == ascSign + i
\* const houseSign = (ascSign + i) % 12;
SignIndex(ascSign, i) == (ascSign + i) % 12

calculateWholeSignHouses(ascendant) ==
    LET ascSign == ascendant \div Deg(30)
    IN  [k \in 1..12 |->
            LET houseSign == SignIndex(ascSign, k - 1)
            IN  [cusp |-> k, longitude |-> houseSign * Deg(30), sign |-> houseSign,
                 system |-> "Whole Sign"]]

calculateEqualHouses(ascendant) ==
    [k \in 1..12 |-> Cusp(k, normalizeAngle(ascendant + (k - 1) * Deg(30)), "Equal")]

getArc(start, end) ==
    LET arc == end - start IN IF arc < 0 THEN arc + Deg(360) ELSE arc

\* houses.sort((a, b) => a.cusp - b.cusp) over the twelve pushed cusps.
SortByCusp(pushed) ==
    [k \in 1..12 |-> pushed[CHOOSE i \in 1..Len(pushed) : pushed[i].cusp = k]]

calculatePorphyryHouses(ascendant, mc) ==
    LET descendant == normalizeAngle(ascendant + Deg(180))
        ic == normalizeAngle(mc + Deg(180))
        arc1 == DivRound(getArc(ascendant, mc), 3)
        arc2 == DivRound(getArc(mc, descendant), 3)
        arc3 == DivRound(getArc(descendant, ic), 3)
        P(n, lon) == Cusp(n, lon, "Porphyry")
    IN  SortByCusp(<<
            P(1, ascendant),
            P(12, normalizeAngle(ascendant + arc1 * 2)),
            P(11, normalizeAngle(ascendant + arc1)),
            P(10, mc),
            P(9, normalizeAngle(mc + arc2 * 2)),
            P(8, normalizeAngle(mc + arc2)),
            P(7, descendant),
            P(6, normalizeAngle(descendant + arc3 * 2)),
            P(5, normalizeAngle(descendant + arc3)),
            P(4, ic),
            P(3, normalizeAngle(ic + arc3 * 2)),
            P(2, normalizeAngle(ic + arc3))>>)

SameCase(name) == name

\* String.prototype.toLowerCase on the names a client passes.
ToLowerCase(name) ==
    CASE name = "wholeSign" -> "wholesign"
      [] name = "WholeSign" -> "wholesign"
      [] name = "Equal" -> "equal"
      [] name = "EQUAL" -> "equal"
      [] name = "Porphyry" -> "porphyry"
      [] name = "Placidus" -> "placidus"
      [] OTHER -> name

\* calculateHouses from the switch on: ascendant and mc are what calculateMC
\* and calculateAscendant gave for (jd, latitude, longitude).
calculateHouses(ascendant, mc, system) ==
    LET lower == ToLowerCase(system)
        houses == CASE lower \in {"whole", "wholesign"} -> calculateWholeSignHouses(ascendant)
                    [] lower = "equal" -> calculateEqualHouses(ascendant)
                    [] OTHER -> calculatePorphyryHouses(ascendant, mc)
    IN  [ascendant |-> ascendant,
         descendant |-> normalizeAngle(ascendant + Deg(180)),
         mc |-> mc,
         ic |-> normalizeAngle(mc + Deg(180)),
         houses |-> houses,
         system |-> system]

NextIndex(i, n) == (i % n) + 1

\* The membership test of getPlanetHouse on the pair (houses[i], next).
PairMatchesNoWrap(normalizedLon, houses, i) ==
    LET currentCusp == houses[i].longitude
        nextCusp == houses[NextIndex(i, Len(houses))].longitude
    IN  normalizedLon >= currentCusp /\ normalizedLon < nextCusp

PairMatches(normalizedLon, houses, i) ==
    LET currentCusp == houses[i].longitude
        nextCusp == houses[NextIndex(i, Len(houses))].longitude
    IN  IF currentCusp < nextCusp
        THEN normalizedLon >= currentCusp /\ normalizedLon < nextCusp
        ELSE normalizedLon >= currentCusp \/ normalizedLon < nextCusp

getPlanetHouse(planetLongitude, houses) ==
    LET normalizedLon == normalizeAngle(planetLongitude)
        hits == {i \in 1..Len(houses) : PairMatches(normalizedLon, houses, i)}
    IN  IF hits = {} THEN 1
        ELSE houses[CHOOSE i \in hits : \A k \in hits : i <= k].cusp

(***************************************************************************)
(* SpecHouses: a client of houses.js                                       *)
(***************************************************************************)
\* Angles on a grid of AngleStep degrees, and one tick either side of 0.
AngleStep == 15
HouseAngles ==
    {Deg(AngleStep * k) : k \in 0..((359) \div AngleStep)} \cup {Deg(1), Deg(359), Deg(44)}

HouseSystems == {"wholeSign", "equal", "porphyry"}

\* Twelve-cusp arrays that increase around the circle with one wrap: twelve of
\* the CuspPoints grid points in ascending order, started at any of them.
CuspPoints == 14
CuspGrid == {Deg(25 * k) : k \in 0..(CuspPoints - 1)}

RECURSIVE Ascending(_)
Ascending(S) ==
    IF S = {} THEN <<>>
    ELSE LET m == CHOOSE x \in S : \A y \in S : x <= y
         IN  <<m>> \o Ascending(S \ {m})

Rotated(S, r) ==
    LET asc == Ascending(S)
    IN  [k \in 1..12 |-> Cusp(k, asc[((k - 1 + r) % 12) + 1], "given")]

CuspArrays ==
    {Rotated(S, r) : S \in {T \in SUBSET CuspGrid : Cardinality(T) = 12}, r \in 0..11}

PlanetLongitudes ==
    CuspGrid \cup {c + Deg(12) : c \in CuspGrid} \cup {Deg(359), Deg(360) - 1, 1}

\* A call that has been made and has not returned yet.
Pending == [pending |-> TRUE]

PureInit ==
    /\ dataModules = [b \in Bodies |-> <<>>]
    /\ fileOk = [b \in AllNames |-> FALSE]
    /\ ephemerisCache = [b \in AllNames |-> NotLoaded]
    /\ nodeCache = [b \in AllNames |-> NotLoaded]
    /\ loads = [browser |-> [b \in AllNames |-> 0], node |-> [b \in AllNames |-> 0]]
    /\ ret = Pending

Pinned == UNCHANGED <<dataModules, fileOk, ephemerisCache, nodeCache, loads,
                      importedModule, call>>

HousesInit ==
    /\ PureInit
    /\ importedModule = "houses.js"
    /\ call \in
         {[op |-> "calculateHouses", ascendant |-> a, mc |-> m, system |-> s] :
              a \in HouseAngles, m \in HouseAngles, s \in HouseSystems}
         \cup
         {[op |-> "getPlanetHouse", planetLongitude |-> lon, houses |-> h] :
              lon \in PlanetLongitudes, h \in CuspArrays}

\* system = 'porphyry' when the caller passes no name.
SystemArgument(c) == IF "system" \in DOMAIN c THEN c.system ELSE "porphyry"

CalculateHouses ==
    /\ call.op = "calculateHouses" /\ ret = Pending
    /\ ret' = calculateHouses(call.ascendant, call.mc, SystemArgument(call))
    /\ Pinned

\* getPlanetHouse, were it to put the array it is given in cusp order before
\* the scan, as calculatePorphyryHouses does with its own array.
GetPlanetHouseSorting ==
    /\ call.op = "getPlanetHouse" /\ ret = Pending
    /\ call' = [call EXCEPT !.houses = SortByCusp(@)]
    /\ ret' = [house |-> getPlanetHouse(call.planetLongitude, call'.houses)]
    /\ UNCHANGED <<dataModules, fileOk, ephemerisCache, nodeCache, loads,
                   importedModule>>

GetPlanetHouse ==
    /\ call.op = "getPlanetHouse" /\ ret = Pending
    /\ ret' = [house |-> getPlanetHouse(call.planetLongitude, call.houses)]
    /\ Pinned

HousesNext == CalculateHouses \/ GetPlanetHouse

SpecHouses == HousesInit /\ [][HousesNext]_vars

Returned == ret # Pending

\* The forward arc from a to b around the circle, in [0, 360).
ForwardArc(a, b) == (b - a) % Deg(360)

RECURSIVE SumArcs(_, _)
SumArcs(houses, n) ==
    IF n = 0 THEN 0
    ELSE SumArcs(houses, n - 1)
         + ForwardArc(houses[n].longitude, houses[NextIndex(n, Len(houses))].longitude)

IncreasingWithOneWrap(houses) ==
    /\ Len(houses) = 12
    /\ \A i \in 1..12 : houses[i].longitude >= 0 /\ houses[i].longitude < Deg(360)
    /\ \A i \in 1..12 : houses[i].longitude # houses[NextIndex(i, 12)].longitude
    /\ Cardinality({i \in 1..12 :
           houses[i].longitude > houses[NextIndex(i, 12)].longitude}) = 1

\* C5: for a 12-cusp array increasing around the circle with one wrap and a
\* longitude in [0,360), exactly one adjacent pair passes the membership test,
\* it is the pair whose forward arc holds the longitude, and getPlanetHouse
\* returns that pair's house number, in 1..12.
C5_HouseCoverage ==
    (/\ call.op = "getPlanetHouse" /\ Returned
     /\ IncreasingWithOneWrap(call.houses)
     /\ call.planetLongitude >= 0 /\ call.planetLongitude < Deg(360)) =>
        LET h == call.houses
            lon == call.planetLongitude
            hits == {i \in 1..12 : PairMatches(lon, h, i)}
            inArc == {i \in 1..12 :
                         ForwardArc(h[i].longitude, lon)
                             < ForwardArc(h[i].longitude, h[NextIndex(i, 12)].longitude)}
        IN  /\ Cardinality(hits) = 1
            /\ hits = inArc
            /\ \E i \in hits : ret.house = h[i].cusp
            /\ ret.house \in 1..12

\* A longitude past the last cusp before 0, placed by the pair that wraps.
C5_Witness ==
    /\ call.op = "getPlanetHouse" /\ Returned
    /\ IncreasingWithOneWrap(call.houses)
    /\ call.houses[ret.house].longitude > call.houses[NextIndex(ret.house, 12)].longitude
    /\ call.planetLongitude < call.houses[NextIndex(ret.house, 12)].longitude
    /\ ret.house # 12

\* C6: every house system returns 12 cusps carrying each index 1..12 once,
\* each longitude in [0,360), in cyclic order (the forward arcs from cusp to
\* next cusp, round to cusp 1, sum to 360), and Porphyry's cusp 1 is the
\* ascendant.
C6_TwelveCyclicCusps ==
    (call.op = "calculateHouses" /\ Returned) =>
        LET h == ret.houses
        IN  /\ Len(h) = 12
            /\ \A k \in 1..12 : Cardinality({i \in 1..12 : h[i].cusp = k}) = 1
            /\ \A i \in 1..12 : h[i].longitude >= 0 /\ h[i].longitude < Deg(360)
            /\ SumArcs(h, 12) = Deg(360)
            /\ call.system = "porphyry" => h[1].longitude = call.ascendant

(***************************************************************************)
(* SpecLookup: getEphemerisPosition on tables of a few samples             *)
(***************************************************************************)
MaxSamples == 3
QueryMax == 10
SampleJds == {0, 4, QueryMax}
SamplePlaces ==
    {<<"Aries", 0>>, <<"Aries", 10>>, <<"Virgo", 20>>, <<"Libra", 10>>,
     <<"Pisces", 20>>, <<"Pisces", 25>>}
SampleRecords == {Rec(jd, p[1], p[2]) : jd \in SampleJds, p \in SamplePlaces}

RECURSIVE SeqsUpTo(_, _)
SeqsUpTo(S, n) ==
    IF n = 0 THEN {<<>>}
    ELSE LET shorter == SeqsUpTo(S, n - 1)
         IN  shorter \cup {Append(q, x) : q \in {t \in shorter : Len(t) = n - 1}, x \in S}

\* The tables the browser loader builds from up to MaxSamples records.
SampleTables == {ProcessBrowser(raw) : raw \in SeqsUpTo(SampleRecords, MaxSamples)}

LookupInit ==
    /\ PureInit
    /\ importedModule = "ephemeris-browser.js"
    /\ call \in {[op |-> "getEphemerisPosition", data |-> t, jd |-> jd] :
                    t \in SampleTables, jd \in 0..QueryMax}

LookupPosition ==
    /\ call.op = "getEphemerisPosition" /\ ret = Pending
    /\ ret' = PositionFrom(call.data, call.jd)
    /\ Pinned

LookupNext == LookupPosition

SpecLookup == LookupInit /\ [][LookupNext]_vars

\* Circular distance between two longitudes of [0,360): at most 180.
CircDist(a, b) ==
    LET d == Abs(a - b) IN IF d > Deg(180) THEN Deg(360) - d ELSE d

\* C4: between a bracketing pair with before.jd < after.jd the longitude is
\* interpolated along the shorter arc: the result is in [0,360), it lies on
\* the shorter arc between the two longitudes, at the fraction of that arc
\* that jd is of the way from before.jd to after.jd (to the nearest tick);
\* and samples (0, 350) and (10, 10) give 0 at jd = 5.
C4_ShorterArc ==
    (call.op = "getEphemerisPosition" /\ Returned /\ ret.found /\ ret.interpolated
     /\ ret.beforeJD < ret.afterJD) =>
        LET i == CHOOSE k \in 1..(Len(call.data) - 1) :
                     /\ call.data[k].jd <= call.jd /\ call.data[k + 1].jd >= call.jd
                     /\ \A m \in 1..(k - 1) :
                            ~(call.data[m].jd <= call.jd /\ call.data[m + 1].jd >= call.jd)
            lonBefore == call.data[i].longitude
            lonAfter == call.data[i + 1].longitude
            gap == ret.afterJD - ret.beforeJD
            arc == CircDist(lonBefore, lonAfter)
            r == ret.longitude
        IN  /\ r >= 0 /\ r < Deg(360)
            /\ 2 * Abs(CircDist(lonBefore, r) * gap - arc * (call.jd - ret.beforeJD)) <= gap
            /\ 2 * Abs(CircDist(r, lonAfter) * gap - arc * (ret.afterJD - call.jd)) <= gap
            /\ (/\ Len(call.data) = 2
                /\ call.data[1].jd = 0 /\ lonBefore = Deg(350)
                /\ call.data[2].jd = 10 /\ lonAfter = Deg(10)
                /\ call.jd = 5) => r = 0

C4_Witness ==
    /\ call.op = "getEphemerisPosition" /\ Returned
    /\ Len(call.data) = 2
    /\ call.data[1].jd = 0 /\ call.data[1].longitude = Deg(350)
    /\ call.data[2].jd = 10 /\ call.data[2].longitude = Deg(10)
    /\ call.jd = 5
    /\ ret.interpolated /\ ret.longitude = 0

(***************************************************************************)
(* SpecSamples: getEphemerisPosition on sorted tables, repeated timestamps *)
(* included, whose longitudes are not all whole degrees                    *)
(***************************************************************************)
MaxTable == 3
SampleTimes == {0, 2, 3}
SampleLongitudes == {1, Deg(10), Deg(200), Deg(350)}
Sample(jd, longitude) ==
    [jd |-> jd, longitude |-> longitude, sign |-> "Aries",
     degInSign |-> longitude % Deg(30), date |-> jd]
SortedTables ==
    {t \in SeqsUpTo({Sample(jd, lon) : jd \in SampleTimes, lon \in SampleLongitudes},
                    MaxTable) :
        /\ t # <<>>
        /\ \A i \in 1..(Len(t) - 1) : t[i].jd <= t[i + 1].jd}

SamplesInit ==
    /\ PureInit
    /\ importedModule = "ephemeris-browser.js"
    /\ call \in {[op |-> "getEphemerisPosition", data |-> t, jd |-> jd] :
                    t \in SortedTables, jd \in 0..3}

SamplesNext == LookupPosition

SpecSamples == SamplesInit /\ [][SamplesNext]_vars

InsideTable == call.jd >= call.data[1].jd /\ call.jd <= call.data[Len(call.data)].jd
DistinctTimes ==
    \A i \in 1..(Len(call.data) - 1) : call.data[i].jd < call.data[i + 1].jd
SamplesAt == {k \in 1..Len(call.data) : call.data[k].jd = call.jd}

\* The scan part of C29: with at least two samples and jd within [min, max]
\* a bracketing adjacent pair is found and the result is marked interpolated,
\* so the nearest-sample fallback answers for single-sample tables only.
ScanFindsPair ==
    /\ (Len(call.data) >= 2 /\ InsideTable) =>
           /\ Bracket(call.data, call.jd) # 0
           /\ ret.found /\ ret.interpolated
    /\ (ret.found /\ ~ret.interpolated) => Len(call.data) = 1

MaxCusps == 4
AnyCuspLongitudes == {0, Deg(90), Deg(200), Deg(359), Deg(360) - 1}
AnyCuspArrays ==
    {[i \in 1..Len(lons) |-> Cusp(i + 1, lons[i], "given")] :
         lons \in SeqsUpTo(AnyCuspLongitudes, MaxCusps) \ {<<>>}}
AnyPlanetLongitudes ==
    {-Deg(10), -1, 0, 1, Deg(90), Deg(100), Deg(359), Deg(360), Deg(725)}

CuspsInit ==
    /\ PureInit
    /\ importedModule = "houses.js"
    /\ call \in {[op |-> "getPlanetHouse", planetLongitude |-> lon, houses |-> h] :
                    lon \in AnyPlanetLongitudes, h \in AnyCuspArrays}

CuspsNext == GetPlanetHouse

SpecCusps == CuspsInit /\ [][CuspsNext]_vars

\* The indices whose pair (houses[i], houses[i + 1 cyclically]) passes the
\* membership test for the longitude of the call.
MatchingPairs ==
    {i \in 1..Len(call.houses) :
        PairMatches(normalizeAngle(call.planetLongitude), call.houses, i)}

\* C28: the default return of getPlanetHouse is unreachable: for every
\* non-empty cusp array with finite longitudes, in any order, with repeated
\* or all-equal cusps, and every finite planet longitude, some circularly
\* adjacent pair passes the membership test and the value returned is the
\* house number of the first such pair.
C28_DefaultUnreachable ==
    (call.op = "getPlanetHouse" /\ Returned) =>
        /\ MatchingPairs # {}
        /\ \E i \in MatchingPairs :
              /\ \A k \in MatchingPairs : i <= k
              /\ ret.house = call.houses[i].cusp
        /\ ret.house # 1

C28_Witness ==
    /\ call.op = "getPlanetHouse" /\ Returned
    /\ Len(call.houses) = 3
    /\ \A i \in 1..3 : call.houses[i].longitude = Deg(200)
    /\ call.planetLongitude = Deg(90)
    /\ ret.house = 2

(***************************************************************************)
(* calculator-calibrated.js / calculator.js: calculateAspects              *)
(***************************************************************************)
AspectTypes(orbs) ==
    <<[name |-> "Conjunction", angle |-> Deg(0), orb |-> orbs.conjunction],
      [name |-> "Opposition", angle |-> Deg(180), orb |-> orbs.opposition],
      [name |-> "Trine", angle |-> Deg(120), orb |-> orbs.trine],
      [name |-> "Square", angle |-> Deg(90), orb |-> orbs.square],
      [name |-> "Sextile", angle |-> Deg(60), orb |-> orbs.sextile]>>

\* let diff = Math.abs(l1 - l2); if (diff > 180) diff = 360 - diff;
AspectDiffUnfolded(l1, l2) == Abs(l1 - l2)
AspectDiff(l1, l2) ==
    LET diff == Abs(l1 - l2) IN IF diff > Deg(180) THEN Deg(360) - diff ELSE diff

\* orb.toFixed(2), for orb >= 0: the decimal string, kept as its hundredths.
toFixed2(x) == (200 * x + Tick) \div (2 * Tick)

\* The aspects pushed for the pair (i, j), in the order of aspectTypes.
PairAspects(planets, orbs, i, j) ==
    LET diff == AspectDiff(planets[i].longitude, planets[j].longitude)
        types == AspectTypes(orbs)
        Within(t) == Abs(diff - t.angle) <= t.orb
        hit == SelectSeq(types, Within)
    IN  [k \in 1..Len(hit) |->
            [planet1 |-> planets[i].planet, planet2 |-> planets[j].planet,
             aspect |-> hit[k].name, angle |-> hit[k].angle,
             orb |-> toFixed2(Abs(diff - hit[k].angle)),
             applying |-> planets[i].longitude < planets[j].longitude]]

\* The inner loop: j from i + 1 to n.
RECURSIVE InnerLoop(_, _, _, _)
InnerLoop(planets, orbs, i, j) ==
    IF j > Len(planets) THEN <<>>
    ELSE PairAspects(planets, orbs, i, j) \o InnerLoop(planets, orbs, i, j + 1)

\* The outer loop: i from 1 to n.
RECURSIVE OuterLoop(_, _, _)
OuterLoop(planets, orbs, i) ==
    IF i > Len(planets) THEN <<>>
    ELSE InnerLoop(planets, orbs, i, i + 1) \o OuterLoop(planets, orbs, i + 1)

calculateAspects(planets, orbs) == OuterLoop(planets, orbs, 1)

\* Orbs wide enough for the windows of neighbouring aspects to overlap.
WideOrbs ==
    [conjunction |-> Deg(20), opposition |-> Deg(20), trine |-> Deg(20),
     square |-> Deg(20), sextile |-> Deg(20)]

DefaultOrbs ==
    [conjunction |-> Deg(8), opposition |-> Deg(8), trine |-> Deg(8),
     square |-> Deg(7), sextile |-> Deg(6)]

(***************************************************************************)
(* SpecAspects                                                             *)
(***************************************************************************)
MaxPlanets == 3
AspectLongitudes ==
    {Deg(d) : d \in {0, 10, 70, 100, 130, 138, 190, 250, 352, 359}}
PlanetNames == <<"Sun", "Moon", "Mercury", "Venus", "Mars">>
ZeroOrbs ==
    [conjunction |-> 0, opposition |-> 0, trine |-> 0, square |-> 0, sextile |-> 0]
OrbChoices == {DefaultOrbs, ZeroOrbs, WideOrbs}

PlanetLists ==
    {[i \in 1..Len(lons) |-> [planet |-> PlanetNames[i], longitude |-> lons[i]]] :
         lons \in SeqsUpTo(AspectLongitudes, MaxPlanets)}

AspectsInit ==
    /\ PureInit
    /\ importedModule = "calculator-calibrated.js"
    /\ call \in {[op |-> "calculateAspects", planets |-> ps, orbs |-> o] :
                    ps \in PlanetLists, o \in OrbChoices}

CalculateAspects ==
    /\ call.op = "calculateAspects" /\ ret = Pending
    /\ ret' = [aspects |-> calculateAspects(call.planets, call.orbs)]
    /\ Pinned

AspectsNext == CalculateAspects

SpecAspects == AspectsInit /\ [][AspectsNext]_vars

\* C8: every unordered pair of planets is considered once, with the circular
\* distance d = min(|dlon|, 360 - |dlon|), and an aspect of a type is recorded
\* exactly when |d - angle| <= that type's orb; 10 and 130 with trine orb 0
\* record a Trine.
C8_AspectsExact ==
    (call.op = "calculateAspects" /\ Returned) =>
        LET ps == call.planets
            n == Len(ps)
            types == AspectTypes(call.orbs)
            Min(a, b) == IF a <= b THEN a ELSE b
            D(i, j) == LET a == Abs(ps[i].longitude - ps[j].longitude)
                       IN  Min(a, Deg(360) - a)
            expected == {<<ps[i].planet, ps[j].planet, types[t].name>> :
                            <<i, j, t>> \in {x \in (1..n) \X (1..n) \X (1..5) :
                                /\ x[1] < x[2]
                                /\ Abs(D(x[1], x[2]) - types[x[3]].angle)
                                       <= types[x[3]].orb}}
            recorded == {<<ret.aspects[k].planet1, ret.aspects[k].planet2,
                           ret.aspects[k].aspect>> : k \in 1..Len(ret.aspects)}
        IN  /\ recorded = expected
            /\ Len(ret.aspects) = Cardinality(expected)

C8_Witness ==
    /\ call.op = "calculateAspects" /\ Returned
    /\ Len(call.planets) = 2
    /\ call.planets[1].longitude = Deg(10) /\ call.planets[2].longitude = Deg(130)
    /\ call.orbs.trine = 0
    /\ Len(ret.aspects) = 1
    /\ ret.aspects[1].aspect = "Trine" /\ ret.aspects[1].orb = 0

\* The unordered pairs and aspect types recorded in a result.
PairTypes(aspects) ==
    {<<{aspects[k].planet1, aspects[k].planet2}, aspects[k].aspect>> :
         k \in 1..Len(aspects)}
Rotations == {1, Deg(8), Deg(45), Deg(172), Deg(180), Deg(359) + 8}
RotatedBy(ps, a) ==
    [i \in 1..Len(ps) |->
        [ps[i] EXCEPT !.longitude = (@ + a) % Deg(360)]]
Orders(n) ==
    {f \in [1..n -> 1..n] : \A i, j \in 1..n : f[i] = f[j] => i = j}
PermutedBy(ps, f) == [i \in 1..Len(ps) |-> ps[f[i]]]

MaxTurns == 2
AngleFractions == 2
AngleInputs ==
    {x \in {Deg(d) + f :
                d \in {-720, -360, -359, -181, -1, 0, 1, 90, 359, 360, 361, 725},
                f \in (-AngleFractions)..AngleFractions} : Fl(x) = x}

AngleInit ==
    /\ PureInit
    /\ importedModule = "julianDay.js"
    /\ call \in {[op |-> "normalizeAngle", x |-> x, k |-> k] :
                    x \in AngleInputs, k \in (-MaxTurns)..MaxTurns}

\* normalizeAngle(x), and normalizeAngle(x + 360 k) with the sum formed as the
\* caller forms it, in floating point.
NormalizeAngle ==
    /\ call.op = "normalizeAngle" /\ ret = Pending
    /\ ret' = [value |-> normalizeAngle(call.x),
               shifted |-> normalizeAngle(Fl(call.x + call.k * Deg(360)))]
    /\ Pinned

AngleNext == NormalizeAngle

SpecAngle == AngleInit /\ [][AngleNext]_vars

\* C9: normalizeAngle(x) is in [0,360) for every finite x, and
\* normalizeAngle(x) = normalizeAngle(x + 360k) for every integer k (for the
\* k whose sum x + 360k is exact).
C9_NormalizedRange ==
    (call.op = "normalizeAngle" /\ Returned) =>
        /\ ret.value >= 0 /\ ret.value < Deg(360)
        /\ Fl(call.x + call.k * Deg(360)) = call.x + call.k * Deg(360)
              => ret.shifted = ret.value

(***************************************************************************)
(* julianDay.js: dateToJulianDay, julianDayToDate                          *)
(*                                                                         *)
(* A Julian Day is kept as [Z, F]: Z = floor(jd + 0.5) and F the fraction  *)
(* of the day in seconds, so jd = Z - 0.5 + F / 86400.  The floors of      *)
(* 365.25 k and 30.6001 k are taken exactly, as integer quotients.         *)
(***************************************************************************)
SecondsPerDay == 86400

\* const A = Math.floor(y / 100); const B = 2 - A + Math.floor(A / 4);
NoCorrection(y) == 0
GregorianCorrection(y) ==
    LET A == y \div 100 IN 2 - A + (A \div 4)

dateToJulianDay(year, month, day, hour, minute, second) ==
    LET y == IF month <= 2 THEN year - 1 ELSE year
        m == IF month <= 2 THEN month + 12 ELSE month
        B == GregorianCorrection(y)
    IN  [Z |-> ((1461 * (y + 4716)) \div 4) + ((306001 * (m + 1)) \div 10000)
                   + day + B - 1524,
         F |-> hour * 3600 + minute * 60 + second]

\* The calendar part of julianDayToDate, from Z.
CalendarOf(Z) ==
    LET alpha == (4 * Z - 7468865) \div 146097
        A == IF Z >= 2299161 THEN Z + 1 + alpha - (alpha \div 4) ELSE Z
        B == A + 1524
        C == (20 * B - 2442) \div 7305
        D == (1461 * C) \div 4
        E == (10000 * (B - D)) \div 306001
        day == B - D - ((306001 * E) \div 10000)
        month == IF E < 14 THEN E - 1 ELSE E - 13
        year == IF month > 2 THEN C - 4716 ELSE C - 4715
    IN  [year |-> year, month |-> month, day |-> day]

\* The fraction of the day a double holds exactly: a multiple of 1/128 day.
ExactFraction(F) == F % 675 = 0

\* The seconds of the day julianDayToDate can floor to: the fraction is a
\* double, at or just under the exact one unless the exact one is a double.
FlooredSeconds(F) == IF ExactFraction(F) THEN {F} ELSE {F, F - 1}

julianDayToDate(jd, t) ==
    LET c == CalendarOf(jd.Z)
    IN  [year |-> c.year, month |-> c.month, day |-> c.day,
         hour |-> t \div 3600, minute |-> (t % 3600) \div 60, second |-> t % 60]

(***************************************************************************)
(* SpecDate                                                                *)
(***************************************************************************)
YearSpread == 1
Years ==
    {y \in {c + o : c \in {1600, 1699, 1899, 1999, 2023, 2099, 2399},
                    o \in 0..YearSpread} : y >= 1600 /\ y <= 2400}
IsLeap(y) == y % 4 = 0 /\ (y % 100 # 0 \/ y % 400 = 0)
DaysInMonth(y, m) ==
    IF m = 2 THEN (IF IsLeap(y) THEN 29 ELSE 28)
    ELSE IF m \in {4, 6, 9, 11} THEN 30 ELSE 31
Times ==
    {<<0, 0, 0>>, <<0, 0, 1>>, <<0, 11, 15>>, <<6, 0, 0>>, <<11, 59, 59>>,
     <<12, 0, 0>>, <<13, 30, 7>>, <<23, 59, 58>>, <<23, 59, 59>>}

DateInit ==
    /\ PureInit
    /\ importedModule = "julianDay.js"
    /\ call \in {[op |-> "dateToJulianDay", year |-> y, month |-> m, day |-> d,
                  hour |-> t[1], minute |-> t[2], second |-> t[3]] :
                    y \in Years, m \in 1..12, d \in {1, 15, 28, 29, 30, 31},
                    t \in Times}
    /\ call.day <= DaysInMonth(call.year, call.month)

DateToJulianDay ==
    /\ call.op = "dateToJulianDay" /\ ret = Pending
    /\ ret' = [jd |-> dateToJulianDay(call.year, call.month, call.day,
                                      call.hour, call.minute, call.second)]
    /\ Pinned

JulianDayToDate ==
    /\ call.op = "dateToJulianDay" /\ DOMAIN ret = {"jd"}
    /\ \E t \in FlooredSeconds(ret.jd.F) :
          ret' = [date |-> julianDayToDate(ret.jd, t)]
    /\ Pinned

DateNext == DateToJulianDay \/ JulianDayToDate

SpecDate == DateInit /\ [][DateNext]_vars

\* Days from the start of year 1 to the civil date, by the calendar's own rules.
RECURSIVE DaysBeforeMonth(_, _)
DaysBeforeMonth(y, m) ==
    IF m = 1 THEN 0 ELSE DaysBeforeMonth(y, m - 1) + DaysInMonth(y, m - 1)
DayNumber(y, m, d) ==
    LET p == y - 1
    IN  365 * p + (p \div 4) - (p \div 100) + (p \div 400)
            + DaysBeforeMonth(y, m) + d
ValidDate(t) ==
    /\ t.month \in 1..12
    /\ t.day \in 1..DaysInMonth(t.year, t.month)
    /\ t.hour \in 0..23 /\ t.minute \in 0..59 /\ t.second \in 0..59
SecondsBetween(a, b) ==
    (DayNumber(b.year, b.month, b.day) - DayNumber(a.year, a.month, a.day))
        * SecondsPerDay
    + (b.hour - a.hour) * 3600 + (b.minute - a.minute) * 60 + (b.second - a.second)
RoundTripDone == call.op = "dateToJulianDay" /\ DOMAIN ret = {"date"}

\* C10: for every valid Gregorian date-time with 1600 <= y <= 2400, leap
\* days, month ends and year ends included,
\* julianDayToDate(dateToJulianDay(...)) is a valid date-time denoting the
\* same instant to within 1 second.
C10_RoundTrip ==
    RoundTripDone =>
        /\ ValidDate(ret.date)
        /\ Abs(SecondsBetween(call, ret.date)) <= 1

C10_Witness ==
    /\ RoundTripDone
    /\ call.year = 2000 /\ call.month = 2 /\ call.day = 29
    /\ call.hour = 0 /\ call.minute = 0 /\ call.second = 1
    /\ ret.date = [year |-> 2000, month |-> 2, day |-> 29,
                   hour |-> 0, minute |-> 0, second |-> 0]

(***************************************************************************)
(* time-corrections.js: localToUTC                                         *)
(*                                                                         *)
(* Hours are held in quarters of an hour, so that every offset of a civil  *)
(* time zone is an integer; the doubles of the code are exact on them.     *)
(***************************************************************************)
QuartersPerHour == 4

localToUTC(year, month, day, hour, minute, second, timezoneOffset) ==
    LET hour0 == hour * QuartersPerHour - timezoneOffset
        over == hour0 >= 24 * QuartersPerHour
        under == ~over /\ hour0 < 0
        utcHour == IF over THEN hour0 - 24 * QuartersPerHour
                   ELSE IF under THEN hour0 + 24 * QuartersPerHour ELSE hour0
        day0 == IF over THEN day + 1 ELSE IF under THEN day - 1 ELSE day
        \* the table is built for the year passed in, before any roll over
        daysInMonth == [m \in 1..12 |-> DaysInMonth(year, m)]
        next == day0 > daysInMonth[month]
        prev == ~next /\ day0 < 1
        month0 == IF next THEN month + 1 ELSE IF prev THEN month - 1 ELSE month
        utcMonth == IF month0 > 12 THEN 1 ELSE IF month0 < 1 THEN 12 ELSE month0
        utcYear == IF month0 > 12 THEN year + 1
                   ELSE IF month0 < 1 THEN year - 1 ELSE year
        utcDay == IF next THEN 1 ELSE IF prev THEN daysInMonth[utcMonth]
                  ELSE day0
    IN  [year |-> utcYear, month |-> utcMonth, day |-> utcDay,
         \* Math.floor(utcHour)
         hour |-> utcHour \div QuartersPerHour,
         minute |-> minute, second |-> second]

(***************************************************************************)
(* SpecLocalTime                                                           *)
(***************************************************************************)
LocalYears == {c + o : c \in {1999, 2023, 2099}, o \in 0..YearSpread}
LocalTimes == {<<0, 0, 0>>, <<0, 11, 15>>, <<12, 0, 0>>, <<23, 59, 59>>}
\* UTC-12:00 .. UTC+14:00 in quarter hours
Offsets == (-12 * QuartersPerHour)..(14 * QuartersPerHour)

LocalTimeInit ==
    /\ PureInit
    /\ importedModule = "time-corrections.js"
    /\ call \in {[op |-> "localToUTC", year |-> y, month |-> m, day |-> d,
                  hour |-> t[1], minute |-> t[2], second |-> t[3],
                  timezoneOffset |-> o] :
                    y \in LocalYears, m \in 1..12, d \in {1, 28, 29, 30, 31},
                    t \in LocalTimes, o \in Offsets}
    /\ call.day <= DaysInMonth(call.year, call.month)

LocalToUTC ==
    /\ call.op = "localToUTC" /\ ret = Pending
    /\ ret' = localToUTC(call.year, call.month, call.day, call.hour,
                         call.minute, call.second, call.timezoneOffset)
    /\ Pinned

LocalTimeNext == LocalToUTC

SpecLocalTime == LocalTimeInit /\ [][LocalTimeNext]_vars

\* C23: for every valid local date-time and every offset from -12 to +14
\* hours in quarter-hour steps, localToUTC returns valid UTC components of
\* the instant that lies offset hours before the local time.
C23_LocalToUTC ==
    (call.op = "localToUTC" /\ Returned) =>
        /\ ValidDate(ret)
        /\ SecondsBetween(ret, call)
              = call.timezoneOffset * (3600 \div QuartersPerHour)

(***************************************************************************)
(* Fixed-point decimals                                                    *)
(*                                                                         *)
(* A number is <<a, b, c>> = a + b / 10^6 + c / 10^12 with a any integer   *)
(* and 0 <= b, c < 10^6.  Sums and products by an integer are exact; a     *)
(* quotient is floored at 10^-12, far below the double's own rounding of   *)
(* the values it stands for.                                               *)
(***************************************************************************)
Limb == 1000000

FxNorm(x) ==
    LET c == x[3] % Limb
        b1 == x[2] + (x[3] \div Limb)
        b == b1 % Limb
        a == x[1] + (b1 \div Limb)
    IN  <<a, b, c>>
FxInt(n) == <<n, 0, 0>>
FxAdd(x, y) == FxNorm(<<x[1] + y[1], x[2] + y[2], x[3] + y[3]>>)
FxSub(x, y) == FxNorm(<<x[1] - y[1], x[2] - y[2], x[3] - y[3]>>)
\* x * n for an integer |n| <= 2000
FxMulInt(x, n) == FxNorm(<<x[1] * n, x[2] * n, x[3] * n>>)
\* x / d for an integer 0 < d <= 2000
FxDivInt(x, d) ==
    LET q0 == x[1] \div d
        r0 == x[1] % d
        q1 == (r0 * Limb + x[2]) \div d
        r1 == (r0 * Limb + x[2]) % d
        q2 == (r1 * Limb + x[3]) \div d
    IN  FxNorm(<<q0, q1, q2>>)
\* n / d for integers n and 0 < d < 2 * 10^6, digit group by digit group
FxRatio(n, d) ==
    LET q0 == n \div d
        r0 == n % d
        q1 == (r0 * 1000) \div d
        r1 == (r0 * 1000) % d
        q2 == (r1 * 1000) \div d
        r2 == (r1 * 1000) % d
        q3 == (r2 * 1000) \div d
        r3 == (r2 * 1000) % d
        q4 == (r3 * 1000) \div d
    IN  FxNorm(<<q0, q1 * 1000 + q2, q3 * 1000 + q4>>)
FxLess(x, y) ==
    \/ x[1] < y[1]
    \/ x[1] = y[1] /\ x[2] < y[2]
    \/ x[1] = y[1] /\ x[2] = y[2] /\ x[3] < y[3]
FxAbs(x) == IF x[1] < 0 THEN FxSub(FxInt(0), x) ELSE x
\* The decimal literal sign * (a + b / 10^6 + c / 10^12)
Dec(sign, a, b, c) == FxNorm(<<sign * a, sign * b, sign * c>>)

\* c[k] + v (c[k+1] + v (c[k+2] + ...)) for v = n / d
RECURSIVE Horner(_, _, _, _)
Horner(c, k, n, d) ==
    IF k = Len(c) THEN c[k]
    ELSE FxAdd(c[k], FxDivInt(FxMulInt(Horner(c, k + 1, n, d), n), d))

(***************************************************************************)
(* time-corrections.js: calculateDeltaT                                    *)
(***************************************************************************)
\* -20 + 32 * u * u with u = (y - 1820) / 100
LongTermParabola(y) ==
    FxSub(FxDivInt(FxDivInt(FxInt(32 * (y - 1820) * (y - 1820)), 100), 100),
          FxInt(20))

DeltaTCoefficients2 ==
    <<Dec(1, 10583, 600000, 0), Dec(-1, 1014, 410000, 0),
      Dec(1, 33, 783110, 0), Dec(-1, 5, 952053, 0),
      Dec(-1, 0, 179845, 200000), Dec(1, 0, 22174, 192000),
      Dec(1, 0, 9031, 652100)>>

DeltaTCoefficients3 ==
    <<Dec(1, 1574, 200000, 0), Dec(-1, 556, 10000, 0),
      Dec(1, 71, 234720, 0), Dec(1, 0, 319781, 0),
      Dec(-1, 0, 850346, 300000), Dec(-1, 0, 5050, 998000),
      Dec(1, 0, 8357, 207300)>>

DeltaTCoefficients4 ==
    <<Dec(1, 120, 0, 0), Dec(-1, 0, 980800, 0),
      Dec(-1, 0, 15320, 0)>>

DeltaTCoefficients5 ==
    <<Dec(1, 8, 830000, 0), Dec(1, 0, 160300, 0),
      Dec(-1, 0, 5928, 500000), Dec(1, 0, 133, 360000)>>

DeltaTCoefficients6 ==
    <<Dec(1, 13, 720000, 0), Dec(-1, 0, 332447, 0),
      Dec(1, 0, 6861, 200000), Dec(1, 0, 4111, 600000),
      Dec(-1, 0, 374, 360000), Dec(1, 0, 12, 127200),
      Dec(-1, 0, 0, 169900), Dec(1, 0, 0, 875)>>

DeltaTCoefficients7 ==
    <<Dec(1, 7, 620000, 0), Dec(1, 0, 573700, 0),
      Dec(-1, 0, 251754, 0), Dec(1, 0, 16806, 680000),
      Dec(-1, 0, 447, 362400)>>

DeltaTCoefficients8 ==
    <<Dec(-1, 2, 790000, 0), Dec(1, 1, 494119, 0),
      Dec(-1, 0, 59893, 900000), Dec(1, 0, 6196, 600000),
      Dec(-1, 0, 197, 0)>>

DeltaTCoefficients9 ==
    <<Dec(1, 21, 200000, 0), Dec(1, 0, 844930, 0),
      Dec(-1, 0, 76100, 0), Dec(1, 0, 2093, 600000)>>

DeltaTCoefficients10 ==
    <<Dec(1, 29, 70000, 0), Dec(1, 0, 407000, 0)>>

DeltaTCoefficients11 ==
    <<Dec(1, 45, 450000, 0), Dec(1, 1, 67000, 0)>>

DeltaTCoefficients12 ==
    <<Dec(1, 63, 860000, 0), Dec(1, 0, 334500, 0),
      Dec(-1, 0, 60374, 0), Dec(1, 0, 1727, 500000),
      Dec(1, 0, 651, 814000), Dec(1, 0, 23, 735990)>>

DeltaTCoefficients13 ==
    <<Dec(1, 62, 920000, 0), Dec(1, 0, 322170, 0),
      Dec(1, 0, 5589, 0)>>

\* The return expression of the k-th branch, k = 1..15, at year y.
DeltaTSegment(k, y) ==
    CASE k = 1 -> LongTermParabola(y)
      [] k = 2 -> LET t == y IN
                    Horner(DeltaTCoefficients2, 1, t, 100)
      [] k = 3 -> LET t == y - 1000 IN
                    Horner(DeltaTCoefficients3, 1, t, 100)
      [] k = 4 -> LET t == y - 1600 IN
                    FxAdd(Horner(DeltaTCoefficients4, 1, t, 1), FxRatio(t * t * t, 7129))
      [] k = 5 -> LET t == y - 1700 IN
                    FxSub(Horner(DeltaTCoefficients5, 1, t, 1), FxRatio(t * t * t * t, 1174000))
      [] k = 6 -> LET t == y - 1800 IN
                    Horner(DeltaTCoefficients6, 1, t, 1)
      [] k = 7 -> LET t == y - 1860 IN
                    FxAdd(Horner(DeltaTCoefficients7, 1, t, 1), FxRatio(t * t * t * t * t, 233174))
      [] k = 8 -> LET t == y - 1900 IN
                    Horner(DeltaTCoefficients8, 1, t, 1)
      [] k = 9 -> LET t == y - 1920 IN
                    Horner(DeltaTCoefficients9, 1, t, 1)
      [] k = 10 -> LET t == y - 1950 IN
                    FxAdd(FxSub(Horner(DeltaTCoefficients10, 1, t, 1), FxRatio(t * t, 233)), FxRatio(t * t * t, 2547))
      [] k = 11 -> LET t == y - 1975 IN
                    FxSub(FxSub(Horner(DeltaTCoefficients11, 1, t, 1), FxRatio(t * t, 260)), FxRatio(t * t * t, 718))
      [] k = 12 -> LET t == y - 2000 IN
                    Horner(DeltaTCoefficients12, 1, t, 1)
      [] k = 13 -> LET t == y - 2000 IN
                    Horner(DeltaTCoefficients13, 1, t, 1)
      [] k = 14 -> FxSub(LongTermParabola(y),
                         FxMulInt(Dec(1, 0, 562800, 0), 2150 - y))
      [] k = 15 -> LongTermParabola(y)

\* The years at which the if / else-if chain changes branch.
SegmentBoundaries ==
    <<-500, 500, 1600, 1700, 1800, 1860, 1900, 1920, 1941, 1961, 1986, 2005,
      2050, 2150>>

\* The branch taken: the first k with y < SegmentBoundaries[k], else the last.
RECURSIVE BranchFrom(_, _)
BranchFrom(y, k) ==
    IF k > Len(SegmentBoundaries) THEN k
    ELSE IF y < SegmentBoundaries[k] THEN k ELSE BranchFrom(y, k + 1)

calculateDeltaT(year) == DeltaTSegment(BranchFrom(year, 1), year)

(***************************************************************************)
(* SpecDeltaT                                                              *)
(***************************************************************************)
YearsAround == 2
DeltaTYears ==
    {SegmentBoundaries[k] + o :
         k \in 1..Len(SegmentBoundaries), o \in (-YearsAround)..YearsAround}

DeltaTInit ==
    /\ PureInit
    /\ importedModule = "time-corrections.js"
    /\ call \in {[op |-> "calculateDeltaT", year |-> y] : y \in DeltaTYears}

CalculateDeltaT ==
    /\ call.op = "calculateDeltaT" /\ ret = Pending
    /\ ret' = [deltaT |-> calculateDeltaT(call.year)]
    /\ Pinned

DeltaTNext == CalculateDeltaT

SpecDeltaT == DeltaTInit /\ [][DeltaTNext]_vars

OneTenth == Dec(1, 0, 100000, 0)

\* C11: at each of the 14 segment boundaries the polynomial of the segment
\* below, evaluated at the boundary, differs from calculateDeltaT at the
\* boundary (the segment above) by less than 0.1 second.
C11_DeltaTContinuity ==
    (call.op = "calculateDeltaT" /\ Returned) =>
        \A k \in 1..Len(SegmentBoundaries) :
            call.year = SegmentBoundaries[k] =>
                FxLess(FxAbs(FxSub(ret.deltaT, DeltaTSegment(k, call.year))),
                       OneTenth)

(***************************************************************************)
(* SpecHouseSystems: calculateHouses over the names a caller can pass      *)
(***************************************************************************)
SystemNames ==
    {"wholeSign", "WholeSign", "wholesign", "whole", "equal", "Equal", "EQUAL",
     "porphyry", "Porphyry", "placidus", "Placidus", "koch", ""}

HouseSystemsInit ==
    /\ PureInit
    /\ importedModule = "houses.js"
    /\ call \in
         {[op |-> "calculateHouses", ascendant |-> a, mc |-> m, system |-> s] :
              a \in HouseAngles, m \in HouseAngles, s \in SystemNames}
         \cup
         {[op |-> "calculateHouses", ascendant |-> a, mc |-> m] :
              a \in HouseAngles, m \in HouseAngles}

HouseSystemsNext == CalculateHouses

SpecHouseSystems == HouseSystemsInit /\ [][HouseSystemsNext]_vars

\* The system a supported name denotes, letter case ignored.
DenotedSystem(name) ==
    CASE name \in {"wholeSign", "WholeSign", "wholesign"} -> "Whole Sign"
      [] name \in {"equal", "Equal", "EQUAL"} -> "Equal"
      [] name \in {"porphyry", "Porphyry"} -> "Porphyry"
      [] OTHER -> "none"

CuspsUnder(label, ascendant, mc) ==
    CASE label = "Whole Sign" -> calculateWholeSignHouses(ascendant)
      [] label = "Equal" -> calculateEqualHouses(ascendant)
      [] label = "Porphyry" -> calculatePorphyryHouses(ascendant, mc)

\* C12: calculateHouses selects the system from its name whatever the letter
\* case ('wholeSign', 'equal', 'porphyry'), an omitted name selects
\* Porphyry, and the system the result names is the one whose cusps were
\* computed.
C12_SystemByName ==
    (call.op = "calculateHouses" /\ Returned
        /\ DenotedSystem(SystemArgument(call)) # "none") =>
        LET want == DenotedSystem(SystemArgument(call))
        IN  /\ ret.houses = CuspsUnder(want, call.ascendant, call.mc)
            /\ \A i \in 1..12 : ret.houses[i].system = want
            /\ DenotedSystem(ret.system) = want
            /\ ("system" \notin DOMAIN call) => want = "Porphyry"

C12_Witness ==
    /\ call.op = "calculateHouses" /\ Returned
    /\ "system" \in DOMAIN call /\ call.system = "WholeSign"
    /\ call.ascendant = Deg(44)
    /\ ret.houses[1].system = "Whole Sign" /\ ret.houses[1].longitude = Deg(30)
    /\ ret.system = "WholeSign"

\* C19: a house-system name that is none of the supported systems is
\* rejected: calculateHouses raises an UnknownEntityError and returns no
\* cusps.
C19_UnknownSystemRejected ==
    (call.op = "calculateHouses" /\ Returned
        /\ "system" \in DOMAIN call
        /\ call.system \in {"placidus", "Placidus", "koch", ""}) =>
        "houses" \notin DOMAIN ret

(***************************************************************************)
(* planets.js: solveKepler                                                 *)
(*                                                                         *)
(* Radians are integers in units of 10^-4 rad; Math.sin and Math.cos are   *)
(* their Taylor series after reduction to the first quadrant.              *)
(***************************************************************************)
RadScale == 10000
HalfPi == 15708
Pi == 31416
TwoPi == 62832

\* sin x for 0 <= x <= pi / 2
SinQ(x) ==
    LET x2 == DivRound(x * x, RadScale)
        t3 == DivRound(x * x2, 6 * RadScale)
        t5 == DivRound(t3 * x2, 20 * RadScale)
        t7 == DivRound(t5 * x2, 42 * RadScale)
        t9 == DivRound(t7 * x2, 72 * RadScale)
    IN  x - t3 + t5 - t7 + t9
Sin(x) ==
    LET r == x % TwoPi
    IN  IF r <= HalfPi THEN SinQ(r)
        ELSE IF r <= Pi THEN SinQ(Pi - r)
        ELSE IF r <= Pi + HalfPi THEN -SinQ(r - Pi)
        ELSE -SinQ(TwoPi - r)
Cos(x) == Sin(x + HalfPi)

\* const maxIterations = 30;
maxIterations == 30

\* The quotient n / d of two numbers held in units of 1 / RadScale, in the
\* same units and rounded to nearest (d > 0): DivRound(n * RadScale, d), with
\* the product split so that it stays within the integers of the checker.
Quotient(n, d) ==
    LET a == Abs(n)
        q == (a \div d) * RadScale + DivRound((a % d) * RadScale, d)
    IN  IF n >= 0 THEN q ELSE -q

\* dE = (E - e * Math.sin(E) - M) / (1 - e * Math.cos(E))
NewtonStepNoAnomaly(E, M, e) ==
    Quotient(E - DivRound(e * Sin(E), RadScale),
             RadScale - DivRound(e * Cos(E), RadScale))
NewtonStep(E, M, e) ==
    Quotient(E - DivRound(e * Sin(E), RadScale) - M,
             RadScale - DivRound(e * Cos(E), RadScale))

\* The loop without its break: every call runs maxIterations updates.
RECURSIVE KeplerLoopNoBreak(_, _, _, _)
KeplerLoopNoBreak(E, M, e, i) ==
    IF i >= maxIterations THEN [E |-> E, iterations |-> i]
    ELSE KeplerLoopNoBreak(E - NewtonStep(E, M, e), M, e, i + 1)

\* The loop from iteration i (0-based) with the current E: the E returned and
\* the number of iterations run.  Math.abs(dE) < 1e-8 is dE = 0 at this
\* resolution.
RECURSIVE KeplerLoop(_, _, _, _)
KeplerLoop(E, M, e, i) ==
    IF i >= maxIterations THEN [E |-> E, iterations |-> i]
    ELSE LET dE == NewtonStep(E, M, e)
         IN  IF dE = 0 THEN [E |-> E - dE, iterations |-> i + 1]
             ELSE KeplerLoop(E - dE, M, e, i + 1)

solveKepler(M, e) == KeplerLoop(M, M, e, 0)

(***************************************************************************)
(* SpecKepler                                                              *)
(***************************************************************************)
AnomalySteps == 40
MeanAnomalies ==
    {k * 1571 : k \in (-AnomalySteps)..AnomalySteps} \cup {-1, 1, 7, TwoPi}
Eccentricities == {0, 167, 2056, 5000, 9000}
\* Nearly parabolic orbits, on which Newton's iteration from E = M wanders.
NearParabolic ==
    {<<-65100, 9900>>, <<-65600, 9950>>, <<-64550, 9990>>}
KeplerInputs == (MeanAnomalies \X Eccentricities) \cup NearParabolic

KeplerInit ==
    /\ PureInit
    /\ importedModule = "planets.js"
    /\ call \in {[op |-> "solveKepler", M |-> p[1], e |-> p[2]] :
                    p \in KeplerInputs}

SolveKepler ==
    /\ call.op = "solveKepler" /\ ret = Pending
    /\ ret' = solveKepler(call.M, call.e)
    /\ Pinned

KeplerNext == SolveKepler

SpecKepler == KeplerInit /\ [][KeplerNext]_vars

\* C14: solveKepler(M, 0) returns exactly M for every M, after one iteration
\* whose Newton step is 0.
C14_ZeroEccentricity ==
    (call.op = "solveKepler" /\ Returned /\ call.e = 0) =>
        ret.E = call.M /\ ret.iterations = 1

C14_Witness ==
    /\ call.op = "solveKepler" /\ Returned
    /\ call.e = 0 /\ call.M = 2 * 1571
    /\ ret.E = 2 * 1571 /\ ret.iterations = 1

\* The estimate after j updates from the initial guess E = M, and the j-th
\* update (j >= 1), written out without the loop.
RECURSIVE Estimate(_, _, _)
Estimate(M, e, j) ==
    IF j = 0 THEN M
    ELSE LET E == Estimate(M, e, j - 1) IN E - NewtonStep(E, M, e)
Update(M, e, j) == NewtonStep(Estimate(M, e, j - 1), M, e)

\* The call used every iteration and its last update was not below the
\* tolerance.
HitCap(M, e, r) ==
    r.iterations = maxIterations /\ Update(M, e, maxIterations) # 0

\* C21: solveKepler always returns: it makes between 1 and 30 updates, none
\* of the updates before the last is below the tolerance, the last one is
\* below it whenever fewer than 30 were made, and the value returned is the
\* estimate after the last update, converged or not.
C21_SolveKeplerTerminates ==
    (call.op = "solveKepler" /\ Returned) =>
        LET k == ret.iterations
        IN  /\ DOMAIN ret = {"E", "iterations"}
            /\ k \in 1..maxIterations
            /\ ret.E = Estimate(call.M, call.e, k)
            /\ \A j \in 1..(k - 1) : Update(call.M, call.e, j) # 0
            /\ k < maxIterations => Update(call.M, call.e, k) = 0

C21_Witness ==
    /\ call.op = "solveKepler" /\ Returned
    /\ call.M = -65100 /\ call.e = 9900
    /\ HitCap(call.M, call.e, ret)
    /\ ret.E = Estimate(call.M, call.e, maxIterations)

\* C22: a value returned by a call that hit the iteration cap is told apart
\* from a converged solution: no call that converged, solveKepler(E, 0) for
\* the returned E included, returns the same value.
C22_CapObservable ==
    (call.op = "solveKepler" /\ Returned /\ HitCap(call.M, call.e, ret)) =>
        \A p \in KeplerInputs \cup {<<ret.E, 0>>} :
            LET r == solveKepler(p[1], p[2])
            IN  ~HitCap(p[1], p[2], r) => r.E # ret.E

(***************************************************************************)
(* Claims about the cusps of each system (under SpecHouses)                *)
(***************************************************************************)
\* C15: calculatePorphyryHouses puts cusps 1, 4, 7, 10 at asc, ic, desc and
\* mc, and in each quadrant the two intermediate cusps at one third and two
\* thirds of the forward arc between the quadrant's bounding angles (to the
\* rounding of the division by 3), for every asc and mc.
C15_PorphyryTrisection ==
    (call.op = "calculateHouses" /\ Returned /\ call.system = "porphyry") =>
        LET h == ret.houses
            asc == call.ascendant
            mc == call.mc
            desc == (asc + Deg(180)) % Deg(360)
            ic == (mc + Deg(180)) % Deg(360)
            Thirds(i, from, to) ==
                LET arc == ForwardArc(from, to)
                    first == h[i + 1].longitude
                    second == h[NextIndex(i + 1, 12)].longitude
                IN  /\ Abs(3 * ForwardArc(from, first) - arc) <= 3
                    /\ Abs(3 * ForwardArc(from, second) - 2 * arc) <= 3
        IN  /\ h[1].longitude = asc /\ h[4].longitude = ic
            /\ h[7].longitude = desc /\ h[10].longitude = mc
            /\ Thirds(1, asc, ic) /\ Thirds(4, ic, desc)
            /\ Thirds(7, desc, mc) /\ Thirds(10, mc, asc)

\* C16: calculateWholeSignHouses(asc): cusp 1 is the 30-degree sign boundary
\* at or below asc, cusp i the start of the (i-1)-th following sign, wrapping
\* from Pisces to Aries, and the 12 signs appear once each.
C16_WholeSign ==
    (call.op = "calculateHouses" /\ Returned /\ call.system = "wholeSign") =>
        LET h == ret.houses
            first == h[1].longitude
        IN  /\ Len(h) = 12
            /\ first % Deg(30) = 0
            /\ first <= call.ascendant /\ call.ascendant < first + Deg(30)
            /\ \A i \in 2..12 :
                  /\ h[i].cusp = i
                  /\ ForwardArc(first, h[i].longitude) = (i - 1) * Deg(30)
                  /\ h[i].longitude >= 0 /\ h[i].longitude < Deg(360)
            /\ {h[i].sign : i \in 1..12} = 0..11
            /\ \A i \in 1..12 : h[i].longitude = h[i].sign * Deg(30)

C16_Witness ==
    /\ call.op = "calculateHouses" /\ Returned /\ call.system = "wholeSign"
    /\ call.ascendant = Deg(345)
    /\ ret.houses[1].longitude = Deg(330)
    /\ ret.houses[2].longitude = Deg(0)
    /\ ret.houses[12].longitude = Deg(300)

\* C27: a body placed exactly on a cusp is in that cusp's house: for each of
\* the three systems and every ascendant and mc, with the cusps calculateHouses
\* produces, getPlanetHouse(cusp k's longitude, cusps) = k for k in 1..12.
C27_OnCuspInItsHouse ==
    (call.op = "calculateHouses" /\ Returned) =>
        \A k \in 1..12 :
            getPlanetHouse(ret.houses[k].longitude, ret.houses) = k

(***************************************************************************)
(* SpecLoader: loadEphemerisData over raw record collections               *)
(***************************************************************************)
MaxRecords == 3
LoaderJdMax == 2
RawRecords ==
    {Rec(1, "Aries", 0), Rec(1, "Leo", 5), Rec(LoaderJdMax, "Leo", 6),
     Rec(0, "Pisces", 29), Rec(NaN, "Leo", 1), Rec(1, "Ophiuchus", 7),
     Rec(LoaderJdMax, "Gemini", NaN)}
RawTables == SeqsUpTo(RawRecords, MaxRecords)

LoaderInit ==
    /\ dataModules \in {[b \in Bodies |-> IF b = "Sun" THEN t ELSE <<>>] :
                           t \in RawTables}
    /\ fileOk = [b \in AllNames |-> b \in Bodies]
    /\ ephemerisCache = [b \in AllNames |-> NotLoaded]
    /\ nodeCache = [b \in AllNames |-> NotLoaded]
    /\ loads = [browser |-> [b \in AllNames |-> 0], node |-> [b \in AllNames |-> 0]]
    /\ importedModule \in {"ephemeris-browser.js", "ephemeris.js"}
    /\ call = [op |-> "none"]
    /\ ret = [found |-> FALSE]

LoaderNext ==
    \/ \E jd \in 0..LoaderJdMax : GetEphemerisPosition("Sun", jd)
    \/ \E jd \in 0..LoaderJdMax : GetEphemerisPositionNode("Sun", jd)

SpecLoader == LoaderInit /\ [][LoaderNext]_vars

WellFormedRecord(r) ==
    r.JD # NaN /\ r.Sign \in DOMAIN SIGN_TO_LONGITUDE /\ r.Deg # NaN
LoadedTables ==
    {c["Sun"].table : c \in {x \in {ephemerisCache, nodeCache} : x["Sun"].loaded}}

\* C17: a loaded table holds exactly the well-formed records of its input,
\* each with longitude = signOffset(sign) + degreeInSign: a record with an
\* unparsable JulianDay, a Sign outside the 12 names or an unparsable Deg is
\* discarded, and a well-formed one, 0 degrees of Aries included, is kept.
C17_OnlyWellFormed ==
    \A t \in LoadedTables :
        LET raw == dataModules["Sun"]
            good == {i \in 1..Len(raw) : WellFormedRecord(raw[i])}
        IN  {<<t[i].jd, t[i].longitude>> : i \in 1..Len(t)}
              = {<<raw[i].JD, SIGN_TO_LONGITUDE[raw[i].Sign] + raw[i].Deg>> :
                    i \in good}

\* C18: the table cached for a body is sorted ascending by jd and holds no
\* two samples with the same jd, whatever the order and the repetitions of
\* the input.
C18_SortedDeduplicated ==
    \A t \in LoadedTables :
        \A i \in 1..Len(t), j \in 1..Len(t) : i < j => t[i].jd < t[j].jd

\* What the other loader caches, and answers, for the same records.
OtherTable(module, raw) ==
    IF module = "ephemeris.js" THEN ProcessBrowser(raw) ELSE ProcessNode(raw)
SameOutcome(a, b) == a.found = b.found /\ a.longitude = b.longitude

\* C26: the Node loader and the browser loader are equivalent: for the same
\* records they cache the same table, and for every jd getEphemerisPosition
\* gives the same outcome (same longitude, or unavailable in both), a sample
\* at exactly 0 degrees of Aries included.
C26_LoadersEquivalent ==
    LET other == OtherTable(importedModule, dataModules["Sun"])
    IN  /\ \A t \in LoadedTables : t = other
        /\ (LookupCall(call) /\ call.body = "Sun") =>
               SameOutcome(ret, PositionFrom(other, call.jd))

(***************************************************************************)
(* planets.js: calculatePlanetPosition                                     *)
(*                                                                         *)
(* Degrees are integers in units of 10^-4 degree here.  The position is    *)
(* carried as far as the eccentric anomaly.                                *)
(***************************************************************************)
DegScale == 10000

\* M0, n (per day) and e of PLANETARY_CONSTANTS; the Moon has no e.
PLANETARY_CONSTANTS ==
    [Sun |-> [M0 |-> 3575291, n |-> 9856, e |-> 167],
     Mercury |-> [M0 |-> 1747944, n |-> 40923, e |-> 2056],
     Venus |-> [M0 |-> 504468, n |-> 16021, e |-> 68],
     Moon |-> [M0 |-> 1349634, n |-> 131764],
     Mars |-> [M0 |-> 194125, n |-> 5240, e |-> 934],
     Jupiter |-> [M0 |-> 196505, n |-> 831, e |-> 484],
     Saturn |-> [M0 |-> 3175124, n |-> 335, e |-> 542],
     Uranus |-> [M0 |-> 1422679, n |-> 117, e |-> 472],
     Neptune |-> [M0 |-> 2599087, n |-> 60, e |-> 86],
     Pluto |-> [M0 |-> 148620, n |-> 40, e |-> 2488]]

NoConstants == [missing |-> TRUE]

\* PLANETARY_CONSTANTS[planet]: undefined for a name the table lacks.
ConstantsOrSun(planet) ==
    IF planet \in DOMAIN PLANETARY_CONSTANTS THEN PLANETARY_CONSTANTS[planet]
    ELSE PLANETARY_CONSTANTS["Sun"]
ConstantsOf(planet) ==
    IF planet \in DOMAIN PLANETARY_CONSTANTS THEN PLANETARY_CONSTANTS[planet]
    ELSE NoConstants

\* degreesToRadians, from 10^-4 degree to 10^-4 rad: degrees * Math.PI / 180,
\* with Math.PI / 180 = 0.017453
degreesToRadians(degrees) == DivRound(DivRound(degrees, 100) * 17453, 10000)

calculatePlanetPosition(planet, jd) ==
    LET constants == ConstantsOf(planet)
    IN  IF constants = NoConstants
        THEN [found |-> FALSE, error |-> "Unknown planet", planet |-> planet]
        ELSE LET daysSinceJ2000 == jd - J2000_JD_TT
                 M == (constants.M0 + constants.n * daysSinceJ2000)
                          % (360 * DegScale)
                 M_rad == degreesToRadians(M)
                 \* constants.e || 0.0167
                 e == IF "e" \in DOMAIN constants /\ constants.e # 0
                      THEN constants.e ELSE 167
                 E == solveKepler(M_rad, e).E
             IN  [found |-> TRUE, error |-> "", planet |-> planet,
                  meanAnomaly |-> M, eccentricAnomaly |-> E, julianDay |-> jd]

(***************************************************************************)
(* SpecBodies: lookups and positions by body name                          *)
(***************************************************************************)
BodyNames == Bodies \cup {UnknownBody}

BodiesInit ==
    /\ dataModules = [b \in Bodies |-> Full]
    /\ fileOk = [b \in AllNames |-> b \in Bodies]
    /\ ephemerisCache = [b \in AllNames |-> NotLoaded]
    /\ nodeCache = [b \in AllNames |-> NotLoaded]
    /\ loads = [browser |-> [b \in AllNames |-> 0], node |-> [b \in AllNames |-> 0]]
    /\ importedModule \in {"ephemeris-browser.js", "ephemeris.js", "planets.js"}
    /\ call = [op |-> "none"]
    /\ ret = [found |-> FALSE]

CalculatePlanetPosition(planet, jd) ==
    /\ importedModule = "planets.js"
    /\ call' = [op |-> "calculatePlanetPosition", body |-> planet, jd |-> jd]
    /\ ret' = calculatePlanetPosition(planet, jd)
    /\ UNCHANGED <<dataModules, fileOk, ephemerisCache, nodeCache, loads,
                   importedModule>>

BodiesNext ==
    \/ \E body \in LookupBodies, jd \in JdInputs : GetEphemerisPosition(body, jd)
    \/ \E body \in LookupBodies, jd \in JdInputs : GetEphemerisPositionNode(body, jd)
    \/ \E body \in BodyNames, jd \in JdInputs : CalculatePlanetPosition(body, jd)

SpecBodies == BodiesInit /\ [][BodiesNext]_vars

\* C20: an unrecognized body never yields a position: calculatePlanetPosition
\* raises an error for a body absent from the constants table,
\* getEphemerisPosition returns no position for a body without an ephemeris
\* table, and the cache never holds an entry for that body.
C20_UnknownBodyNoPosition ==
    /\ ephemerisCache[UnknownBody] = NotLoaded
    /\ nodeCache[UnknownBody] = NotLoaded
    /\ (LookupCall(call) /\ call.body \notin Bodies) => ~ret.found
    /\ (call.op = "calculatePlanetPosition" /\ call.body \notin Bodies) =>
           ~ret.found /\ ret.error # ""

C20_Witness ==
    /\ call.op = "calculatePlanetPosition" /\ call.body = UnknownBody
    /\ ~ret.found /\ ret.error = "Unknown planet"

(***************************************************************************)
(* moon-calculator.js: calculateMoonPosition                               *)
(*                                                                         *)
(* Angles in units of 1 / DegScale degree.  T = (jd - 2451545) / 36525, so *)
(* a linear term c * T is (c / 36525) per day; for the days modelled the   *)
(* terms in T^2, T^3 and T^4 are below 10^-8 degree and round to nothing.  *)
(***************************************************************************)
Turn == 360 * DegScale

\* The mean arguments at jd: L', D, M, M', F, each passed through
\* normalizeAngle.
MeanArguments(jd) ==
    LET d == jd - J2000_JD_TT
    IN  [L_moon |-> (2183164 + 131764 * d) % Turn,
         D |-> (2978502 + 121907 * d) % Turn,
         M |-> (3575291 + 9856 * d) % Turn,
         M_prime |-> (1349634 + 130650 * d) % Turn,
         F |-> (932721 + 132294 * d) % Turn]

\* coefficient * Math.sin(argument), the coefficient in 1 / DegScale degree
Term(coefficient, argument) == DivRound(coefficient * Sin(argument), RadScale)

\* The ten periodic terms, lines 65-74.
Correction(a) ==
    LET D_rad == degreesToRadians(a.D)
        M_rad == degreesToRadians(a.M)
        M_prime_rad == degreesToRadians(a.M_prime)
        F_rad == degreesToRadians(a.F)
    IN  Term(62888, M_prime_rad)
      + Term(12740, 2 * D_rad - M_prime_rad)
      + Term(6583, 2 * D_rad)
      + Term(2136, 2 * M_prime_rad)
      - Term(1851, M_rad)
      - Term(1143, 2 * F_rad)
      + Term(588, 2 * (D_rad - M_prime_rad))
      + Term(571, 2 * D_rad - M_rad - M_prime_rad)
      + Term(533, 2 * D_rad + M_prime_rad)
      + Term(458, 2 * D_rad - M_rad)

\* The geocentric result, lines 81-94.
GeocentricMoon(jd) ==
    LET a == MeanArguments(jd)
        correction == Correction(a)
    IN  [longitude |-> (a.L_moon + correction) % Turn,
         meanLongitude |-> a.L_moon,
         correction |-> correction,
         meanArguments |-> [D |-> a.D, M |-> a.M, M_prime |-> a.M_prime,
                            F |-> a.F],
         method |-> "J2000-ELP2000-simplified",
         parallaxCorrected |-> FALSE]

\* options = {}
NoOptions == [k \in {} |-> 0]

\* options.latitude !== undefined && options.longitude !== undefined
HasLocation(options) ==
    "latitude" \in DOMAIN options /\ "longitude" \in DOMAIN options

\* observerLocation, with elevation: options.elevation || 0
ObserverLocation(options) ==
    [latitude |-> options.latitude, longitude |-> options.longitude,
     elevation |-> IF "elevation" \in DOMAIN options THEN options.elevation
                   ELSE 0]

\* The result with the Moon's horizontal parallax (0.95 degree at the
\* equator) taken off the longitude.
WithParallaxApplied(result, options) ==
    LET latitude == degreesToRadians(Abs(options.latitude) * DegScale)
        parallax == DivRound(9507 * Cos(latitude), RadScale)
    IN  [parallaxNote |-> "applied",
         observerLocation |-> ObserverLocation(options)]
        @@ [result EXCEPT !.longitude = (@ + Turn - parallax) % Turn,
                          !.parallaxCorrected = TRUE]

\* Lines 98-118: the location adds two fields and changes none.
WithObserver(result, options) ==
    [parallaxNote |-> "available, not applied",
     observerLocation |-> ObserverLocation(options)] @@ result

calculateMoonPosition(jd, options) ==
    LET result == GeocentricMoon(jd)
    IN  IF HasLocation(options) THEN WithObserver(result, options) ELSE result

(***************************************************************************)
(* SpecMoon                                                                *)
(***************************************************************************)
MoonDays == 30
MoonJds == {J2000_JD_TT + d : d \in (-MoonDays)..MoonDays}
Latitudes == {-90, 0, 52}
Longitudes == {-74, 0, 139}
Elevations == {0, 2400}
MoonOptions ==
    {NoOptions}
    \cup {[latitude |-> la] : la \in Latitudes}
    \cup {[longitude |-> lo] : lo \in Longitudes}
    \cup {[latitude |-> la, longitude |-> lo] :
              la \in Latitudes, lo \in Longitudes}
    \cup {[latitude |-> la, longitude |-> lo, elevation |-> el] :
              la \in Latitudes, lo \in Longitudes, el \in Elevations}

MoonInit ==
    /\ PureInit
    /\ importedModule = "moon-calculator.js"
    /\ call \in {[op |-> "calculateMoonPosition", jd |-> jd] : jd \in MoonJds}
           \cup {[op |-> "calculateMoonPosition", jd |-> jd, options |-> o] :
                    jd \in MoonJds, o \in MoonOptions}

\* function calculateMoonPosition(jd, options = {})
OptionsArgument(c) == IF "options" \in DOMAIN c THEN c.options ELSE NoOptions

CalculateMoonPosition ==
    /\ call.op = "calculateMoonPosition" /\ ret = Pending
    /\ ret' = calculateMoonPosition(call.jd, OptionsArgument(call))
    /\ Pinned

MoonNext == CalculateMoonPosition

SpecMoon == MoonInit /\ [][MoonNext]_vars

\* C24: the Moon longitude does not depend on the observer: whatever the
\* options, the result has the longitude, and every other field, of the call
\* without options at the same jd, with parallaxCorrected false; a location
\* only adds the advisory fields parallaxNote and observerLocation.
C24_MoonObserverIndependent ==
    (call.op = "calculateMoonPosition" /\ Returned) =>
        LET geocentric == calculateMoonPosition(call.jd, NoOptions)
        IN  /\ ret.longitude = geocentric.longitude
            /\ ret.parallaxCorrected = FALSE
            /\ \A f \in DOMAIN geocentric : ret[f] = geocentric[f]
            /\ DOMAIN ret \ DOMAIN geocentric
                   \subseteq {"parallaxNote", "observerLocation"}

C24_Witness ==
    /\ call.op = "calculateMoonPosition" /\ Returned
    /\ call.jd = J2000_JD_TT + 7
    /\ HasLocation(OptionsArgument(call)) /\ call.options.latitude = 52
    /\ "observerLocation" \in DOMAIN ret
    /\ ret.longitude = calculateMoonPosition(call.jd, NoOptions).longitude
    /\ ret.longitude # calculateMoonPosition(call.jd - 1, NoOptions).longitude

(***************************************************************************)
(* SpecSession: position, chart, house and aspect operations in any order  *)
(*                                                                         *)
(* A house or aspect operation receives its array by reference: the caller *)
(* first holds the arguments (Invoke), then the operation runs on them.    *)
(***************************************************************************)
Reversed(s) == [i \in 1..Len(s) |-> s[Len(s) + 1 - i]]

SessionCusps ==
    {calculateHouses(Deg(100), Deg(10), "porphyry").houses,
     calculateHouses(Deg(345), Deg(250), "wholeSign").houses,
     Reversed(calculateHouses(Deg(15), Deg(285), "equal").houses)}
SessionLongitudes == {0, Deg(112), Deg(359)}
SessionPlanets ==
    {ps \in PlanetLists :
        \A i \in 1..Len(ps) : ps[i].longitude \in {Deg(10), Deg(130), Deg(250)}}
SessionCalls ==
    {[op |-> "getPlanetHouse", planetLongitude |-> lon, houses |-> h] :
         lon \in SessionLongitudes, h \in SessionCusps}
    \cup {[op |-> "calculateAspects", planets |-> ps, orbs |-> DefaultOrbs] :
              ps \in SessionPlanets}
    \cup {[op |-> "calculateHouses", ascendant |-> a, mc |-> Deg(10), system |-> sy] :
              a \in {Deg(100), Deg(345)}, sy \in HouseSystems}

SessionInit ==
    /\ Init
    /\ dataModules["Jupiter"] = Full
    /\ dataModules["Sun"] \in {Full, Narrow}

\* No house or aspect operation is under way.
Idle == ret # Pending

Invoke(c) ==
    /\ Idle
    /\ call' = c
    /\ ret' = Pending
    /\ UNCHANGED <<dataModules, fileOk, ephemerisCache, nodeCache, loads,
                   importedModule>>

SessionNext ==
    \/ \E c \in SessionCalls : Invoke(c)
    \/ GetPlanetHouse
    \/ CalculateAspects
    \/ CalculateHouses
    \/ \E body \in LookupBodies, jd \in JdInputs :
          Idle /\ GetEphemerisPosition(body, jd)
    \/ \E body \in LookupBodies, jd \in JdInputs :
          Idle /\ GetEphemerisPositionNode(body, jd)
    \/ \E jd \in JdInputs \cup {Undefined}, useJ2000 \in BOOLEAN :
          Idle /\ CalculateBirthChart(jd, useJ2000)

SpecSession == SessionInit /\ [][SessionNext]_vars

\* C25: no operation changes state other than adding an entry to the
\* ephemeris cache: in every step the ephemeris data stay as they are, a
\* cache entry once added stays as it is, and the arguments a house or
\* aspect operation was given (the cusp array, the planet list) are the same
\* after it as before.
C25_FrameEffect ==
    [][/\ dataModules' = dataModules
       /\ fileOk' = fileOk
       /\ \A b \in AllNames :
             /\ ephemerisCache[b].loaded => ephemerisCache'[b] = ephemerisCache[b]
             /\ nodeCache[b].loaded => nodeCache'[b] = nodeCache[b]
       /\ ret = Pending => call' = call]_vars

C25_Witness ==
    /\ call.op = "getPlanetHouse" /\ Returned
    /\ call.houses = Reversed(calculateHouses(Deg(15), Deg(285), "equal").houses)
    /\ call.houses # SortByCusp(call.houses)
    /\ \E b \in Bodies : ephemerisCache[b].loaded \/ nodeCache[b].loaded

====
